---- MODULE Spec2Model ----
(***************************************************************************)
(* Merchant node registry: the peer record state machine                   *)
(* (CMerchantnode::Check), the announcement protocol                       *)
(* (CMerchantnodeBroadcast::Update / CheckOutpoint) and the heartbeat      *)
(* protocol (CMerchantnodePing::CheckAndUpdate) of                         *)
(* src/src/tpos/merchantnode.cpp.                                          *)
(*                                                                         *)
(* Time is counted in abstract units.  The thresholds of merchantnode.h    *)
(* and the literal offsets of merchantnode.cpp are scaled down to small    *)
(* numbers that keep the order of the real values                          *)
(*   check < min-broadcast <= min-ping < expiration < new-start.           *)
(* GetTime() and GetAdjustedTime() are both the model clock `now`.         *)
(* Chain heights live in a window that starts above the 24 block ping      *)
(* horizon so a ping can refer to a block older than the horizon.          *)
(***************************************************************************)
EXTENDS Integers, FiniteSets, Sequences, TLC

\* ------------------------------------------------------------------ bounds
MaxTime == 5
HeightSpan == 2
MaxNetSize == 2

\* ------------------------------------------------- constants of the program
MERCHANTNODE_CHECK_SECONDS == 1
MERCHANTNODE_MIN_MNB_SECONDS == 2
MERCHANTNODE_MIN_MNP_SECONDS == 3
MERCHANTNODE_EXPIRATION_SECONDS == 4
MERCHANTNODE_WATCHDOG_MAX_SECONDS == 4
MERCHANTNODE_NEW_START_REQUIRED_SECONDS == 5
MERCHANTNODE_POSE_BAN_MAX_SCORE == 2
\* the "- 60" of the early-ping test and the "60 * 60" future drift
PING_EARLY_SLACK == 1
FUTURE_DRIFT == 1
\* a ping's block may be at most this many blocks behind the tip
PING_BLOCK_HORIZON == 24
\* protocol version of this build, and an older one
PROTOCOL_VERSION == 2
OLD_PROTOCOL_VERSION == 1
\* 1000 * COIN, in coins
COLLATERAL_AMOUNT == 1000
\* Params().GetConsensus().nMasternodeMinimumConfirmations
nMasternodeMinimumConfirmations == 3

StartTime == 2
StartHeight == 25
MaxHeight == StartHeight + HeightSpan

Times == 0..MaxTime

MERCHANTNODE_PRE_ENABLED == "PRE_ENABLED"
MERCHANTNODE_ENABLED == "ENABLED"
MERCHANTNODE_EXPIRED == "EXPIRED"
MERCHANTNODE_OUTPOINT_SPENT == "OUTPOINT_SPENT"
MERCHANTNODE_UPDATE_REQUIRED == "UPDATE_REQUIRED"
MERCHANTNODE_WATCHDOG_EXPIRED == "WATCHDOG_EXPIRED"
MERCHANTNODE_NEW_START_REQUIRED == "NEW_START_REQUIRED"
MERCHANTNODE_POSE_BAN == "POSE_BAN"

States ==
  { MERCHANTNODE_PRE_ENABLED, MERCHANTNODE_ENABLED, MERCHANTNODE_EXPIRED,
    MERCHANTNODE_OUTPOINT_SPENT, MERCHANTNODE_UPDATE_REQUIRED,
    MERCHANTNODE_WATCHDOG_EXPIRED, MERCHANTNODE_NEW_START_REQUIRED,
    MERCHANTNODE_POSE_BAN }

COLLATERAL_OK == "COLLATERAL_OK"
COLLATERAL_UTXO_NOT_FOUND == "COLLATERAL_UTXO_NOT_FOUND"
COLLATERAL_INVALID_AMOUNT == "COLLATERAL_INVALID_AMOUNT"

\* what the UTXO set holds for the outpoint: an output of nValue paying the
\* collateral key K1, in a transaction of the block at nHeight
Coin(nValue, nHeight) ==
  [found |-> TRUE, nValue |-> nValue, nHeight |-> nHeight, payee |-> "K1"]

\* keys: collateral keys own outpoints, service keys sign pings
CollateralKeys == {"K1", "K2"}
ServiceKeys == {"S1", "S2"}
\* activeMerchantnode.pubKeyMerchantnode, the service key of this node
activePubKeyMerchantnode == "S1"
Addrs == {"A1", "A2"}
TheOutpoint == "O1"
\* activeMerchantnode.outpoint
activeOutpoint == TheOutpoint
NullBlock == -1

VARIABLES
  mn,             \* the peer record (CMerchantnode)
  now,            \* GetTime() / GetAdjustedTime()
  height,         \* chainActive.Height()
  coin,           \* what the UTXO set holds for the record's outpoint
  fMerchantNode,  \* this node runs a merchant node itself
  seenMnb,        \* the announcement is in mapSeenMerchantnodeBroadcast
  last,           \* the call that made the last step, the state it found, how it returned
  threads         \* who holds cs and cs_main, and where the two threads are

vars == <<mn, now, height, coin, fMerchantNode, seenMnb, last, threads>>

\* the periodic sweep and the handler of a message
Threads == {"sweep", "handler"}

NoOwner == "none"

\* no call is running: cs and cs_main are free
NoThreads ==
  [cs |-> NoOwner, cs_main |-> NoOwner, pc |-> [t \in Threads |-> "idle"],
   msg |-> "none"]

\* ------------------------------------------------------------ the messages
\* CMerchantnodePing(): the empty ping
EmptyPing ==
  [outpoint |-> "none", blockHeight |-> NullBlock, sigTime |-> 0, signer |-> "none"]

\* A signature is the key that made it and the message it was made over.
\* strMessage of CMerchantnodeBroadcast::Sign / CheckSignature
BroadcastMessage(mnb) ==
  <<mnb.addr, mnb.sigTime, mnb.pubKeyCollateralAddress, mnb.pubKeyMerchantnode,
    mnb.nProtocolVersion>>

SignBroadcast(mnb, key) == [signer |-> key, msg |-> BroadcastMessage(mnb)]

\* CMerchantnodeBroadcast::CheckSignature: the result and nDos
BroadcastSignatureOk(mnb) ==
  /\ mnb.vchSig.signer = mnb.pubKeyCollateralAddress
  /\ mnb.vchSig.msg = BroadcastMessage(mnb)

\* CMerchantnodePing::CheckSignature against the record's service key
PingSignatureOk(mnp, pubKeyMerchantnode) == mnp.signer = pubKeyMerchantnode

\* ------------------------------------------- what the collaborators answer
\* One answer of the collaborators a handler consults while it runs:
\* ShutdownRequested(), TRY_LOCK(cs_main), merchantnodeman.size(),
\* merchantnodeSync.IsMerchantnodeListSynced(), merchantnodeSync.IsSynced(),
\* merchantnodeman.IsWatchdogActive().
Oracles ==
  { o \in [shutdown : BOOLEAN, lockMain : BOOLEAN, size : 1..MaxNetSize,
           listSynced : BOOLEAN, synced : BOOLEAN, watchdogActive : BOOLEAN] :
      /\ o.synced => o.listSynced
      /\ o.watchdogActive => o.synced }

\* --------------------------------------------- the record's small queries
IsOutpointSpent(m) == m.nActiveState = MERCHANTNODE_OUTPOINT_SPENT
IsPoSeBanned(m) == m.nActiveState = MERCHANTNODE_POSE_BAN
IsExpired(m) == m.nActiveState = MERCHANTNODE_EXPIRED
IsWatchdogExpired(m) == m.nActiveState = MERCHANTNODE_WATCHDOG_EXPIRED
IsNewStartRequired(m) == m.nActiveState = MERCHANTNODE_NEW_START_REQUIRED
IsUpdateRequired(m) == m.nActiveState = MERCHANTNODE_UPDATE_REQUIRED
IsEnabled(m) == m.nActiveState = MERCHANTNODE_ENABLED
IsPreEnabled(m) == m.nActiveState = MERCHANTNODE_PRE_ENABLED

IsBroadcastedWithin(m, nSeconds) == now - m.sigTime < nSeconds

IsPingedWithin(m, nSeconds, nTimeToCheckAt) ==
  IF m.lastPing = EmptyPing THEN FALSE
  ELSE nTimeToCheckAt - m.lastPing.sigTime < nSeconds

IncreasePoSeBanScore(m) ==
  IF m.nPoSeBanScore < MERCHANTNODE_POSE_BAN_MAX_SCORE
  THEN [m EXCEPT !.nPoSeBanScore = @ + 1] ELSE m

DecreasePoSeBanScore(m) ==
  IF m.nPoSeBanScore > -MERCHANTNODE_POSE_BAN_MAX_SCORE
  THEN [m EXCEPT !.nPoSeBanScore = @ - 1] ELSE m

\* ------------------------------------------------------- CheckCollateral
CheckCollateral(c) ==
  IF ~c.found THEN COLLATERAL_UTXO_NOT_FOUND
  ELSE IF c.nValue # COLLATERAL_AMOUNT THEN COLLATERAL_INVALID_AMOUNT
  ELSE COLLATERAL_OK

\* ----------------------------------------------------- CMerchantnode::Check
\* A call returns the record it leaves and the place it returned at.
Ret(m, path) == [mn |-> m, path |-> path]

SetState(m, s) == [m EXCEPT !.nActiveState = s]

fOurMasternode(m) ==
  fMerchantNode /\ activePubKeyMerchantnode = m.pubKeyMerchantnode

fRequireUpdate(m) == fOurMasternode(m) /\ m.nProtocolVersion < PROTOCOL_VERSION

fWaitForPing(m, o) ==
  ~o.listSynced /\ ~IsPingedWithin(m, MERCHANTNODE_MIN_MNP_SECONDS, now)

fWatchdogExpired(m, o) ==
  /\ o.synced /\ o.watchdogActive
  /\ (now - m.nTimeLastWatchdogVote) > MERCHANTNODE_WATCHDOG_MAX_SECONDS

\* a record that was ENABLED is not looked at again
CheckEnable_KeepsEnabled(m) ==
  IF IsEnabled(m) THEN Ret(m, "enabled")
  ELSE IF m.lastPing.sigTime - m.sigTime < MERCHANTNODE_MIN_MNP_SECONDS
  THEN Ret(SetState(m, MERCHANTNODE_PRE_ENABLED), "pre_enabled")
  ELSE Ret(SetState(m, MERCHANTNODE_ENABLED), "enabled")

\* lines 227-238: freshly announced or enabled
CheckEnable(m) ==
  IF m.lastPing.sigTime - m.sigTime < MERCHANTNODE_MIN_MNP_SECONDS
  THEN Ret(SetState(m, MERCHANTNODE_PRE_ENABLED), "pre_enabled")
  ELSE Ret(SetState(m, MERCHANTNODE_ENABLED), "enabled")

\* the expiration threshold is never applied
CheckExpire_NoExpiry(m, o) ==
  IF ~fWaitForPing(m, o) \/ fOurMasternode(m)
  THEN IF ~IsPingedWithin(m, MERCHANTNODE_NEW_START_REQUIRED_SECONDS, now)
       THEN Ret(SetState(m, MERCHANTNODE_NEW_START_REQUIRED), "new_start")
       ELSE IF fWatchdogExpired(m, o)
       THEN Ret(SetState(m, MERCHANTNODE_WATCHDOG_EXPIRED), "watchdog")
       ELSE CheckEnable(m)
  ELSE CheckEnable(m)

\* the expirations are applied while waiting for a ping as well
CheckExpire_NoGrace(m, o) ==
  IF ~IsPingedWithin(m, MERCHANTNODE_NEW_START_REQUIRED_SECONDS, now)
  THEN Ret(SetState(m, MERCHANTNODE_NEW_START_REQUIRED), "new_start")
  ELSE IF fWatchdogExpired(m, o)
  THEN Ret(SetState(m, MERCHANTNODE_WATCHDOG_EXPIRED), "watchdog")
  ELSE IF ~IsPingedWithin(m, MERCHANTNODE_EXPIRATION_SECONDS, now)
  THEN Ret(SetState(m, MERCHANTNODE_EXPIRED), "expired")
  ELSE CheckEnable(m)

\* lines 194-225: the expirations, skipped while waiting for a ping
CheckExpire(m, o) ==
  IF ~fWaitForPing(m, o) \/ fOurMasternode(m)
  THEN IF ~IsPingedWithin(m, MERCHANTNODE_NEW_START_REQUIRED_SECONDS, now)
       THEN Ret(SetState(m, MERCHANTNODE_NEW_START_REQUIRED), "new_start")
       ELSE IF fWatchdogExpired(m, o)
       THEN Ret(SetState(m, MERCHANTNODE_WATCHDOG_EXPIRED), "watchdog")
       ELSE IF ~IsPingedWithin(m, MERCHANTNODE_EXPIRATION_SECONDS, now)
       THEN Ret(SetState(m, MERCHANTNODE_EXPIRED), "expired")
       ELSE CheckEnable(m)
  ELSE CheckEnable(m)

\* a record that waits for a ping is held whatever state it was in
CheckHold_AnyState(m, o) == fWaitForPing(m, o) /\ ~fOurMasternode(m)

\* lines 185-191: an expired record is held while waiting for a ping
CheckHold(m, o) ==
  /\ fWaitForPing(m, o) /\ ~fOurMasternode(m)
  /\ (IsExpired(m) \/ IsWatchdogExpired(m) \/ IsNewStartRequired(m))

\* lines 166-239
CheckLiveness(m, o) ==
  IF fRequireUpdate(m)
  THEN Ret(SetState(m, MERCHANTNODE_UPDATE_REQUIRED), "update_required")
  ELSE IF CheckHold(m, o) THEN Ret(m, "hold")
  ELSE CheckExpire(m, o)

\* the ban ends one block early
BanNotOver_EarlyEnd(m, nHeight) == nHeight + 1 < m.nPoSeBanHeight

\* line 152
BanNotOver(m, nHeight) == nHeight < m.nPoSeBanHeight

\* lines 159-161
Ban(m, nHeight, o) ==
  [m EXCEPT !.nActiveState = MERCHANTNODE_POSE_BAN,
            !.nPoSeBanHeight = nHeight + o.size]

\* the end of a ban resets the score
CheckPoSe_ResetsScore(m, nHeight, o) ==
  IF IsPoSeBanned(m)
  THEN IF BanNotOver(m, nHeight) THEN Ret(m, "still_banned")
       ELSE CheckLiveness([m EXCEPT !.nPoSeBanScore = 0], o)
  ELSE IF m.nPoSeBanScore >= MERCHANTNODE_POSE_BAN_MAX_SCORE
       THEN Ret(Ban(m, nHeight, o), "banned")
       ELSE CheckLiveness(m, o)

\* lines 151-164, then the rest of the checks
CheckPoSe(m, nHeight, o) ==
  IF IsPoSeBanned(m)
  THEN IF BanNotOver(m, nHeight) THEN Ret(m, "still_banned")
       ELSE CheckLiveness(DecreasePoSeBanScore(m), o)
  ELSE IF m.nPoSeBanScore >= MERCHANTNODE_POSE_BAN_MAX_SCORE
       THEN Ret(Ban(m, nHeight, o), "banned")
       ELSE CheckLiveness(m, o)

\* the re-check interval is one time unit shorter
CheckRateLimited_OffByOne(m, fForce) ==
  ~fForce /\ (now - m.nTimeLastChecked < MERCHANTNODE_CHECK_SECONDS - 1)

\* line 128
CheckRateLimited(m, fForce) ==
  ~fForce /\ (now - m.nTimeLastChecked < MERCHANTNODE_CHECK_SECONDS)

\* a spent record is checked like any other
CheckOutpointSpent_NoStop(m, o) ==
  IF m.fUnitTest THEN CheckPoSe(m, 0, o)
  ELSE IF ~o.lockMain THEN Ret(m, "no_lock")
  ELSE IF CheckCollateral(coin) = COLLATERAL_UTXO_NOT_FOUND
       THEN Ret(SetState(m, MERCHANTNODE_OUTPOINT_SPENT), "utxo_not_found")
       ELSE CheckPoSe(m, height, o)

\* the collateral is looked up whether cs_main was got or not
CheckOutpointSpent_IgnoresLock(m, o) ==
  IF IsOutpointSpent(m) THEN Ret(m, "spent")
  ELSE IF m.fUnitTest THEN CheckPoSe(m, 0, o)
  ELSE IF CheckCollateral(coin) = COLLATERAL_UTXO_NOT_FOUND
       THEN Ret(SetState(m, MERCHANTNODE_OUTPOINT_SPENT), "utxo_not_found")
       ELSE CheckPoSe(m, height, o)

\* lines 133-149: the collateral, under a try-lock of cs_main
CheckOutpointSpent(m, o) ==
  IF IsOutpointSpent(m) THEN Ret(m, "spent")
  ELSE IF m.fUnitTest THEN CheckPoSe(m, 0, o)
  ELSE IF ~o.lockMain THEN Ret(m, "no_lock")
  ELSE IF CheckCollateral(coin) = COLLATERAL_UTXO_NOT_FOUND
       THEN Ret(SetState(m, MERCHANTNODE_OUTPOINT_SPENT), "utxo_not_found")
       ELSE CheckPoSe(m, height, o)

\* lines 122-239
CheckAt(m, fForce, o) ==
  IF o.shutdown THEN Ret(m, "shutdown")
  ELSE IF CheckRateLimited(m, fForce) THEN Ret(m, "rate_limited")
  ELSE CheckOutpointSpent([m EXCEPT !.nTimeLastChecked = now], o)

Check(m, fForce, o) == CheckAt(m, fForce, o).mn

\* ------------------------------------------ CMerchantnodePing::CheckAndUpdate
\* what a handler hands back: the record, the result, nDos, what it relayed
\* and the place it returned at
Out(m, ret, nDos, relay, path) ==
  [mn |-> m, ret |-> ret, nDos |-> nDos, relay |-> relay, path |-> path]

\* CMerchantnodePing::SimpleCheck, lines 675-679
PingTooFarInFuture(mnp) == mnp.sigTime > now + FUTURE_DRIFT

\* CMerchantnodePing::SimpleCheck, lines 683-689: mapBlockIndex.find(blockHash)
PingBlockUnknown(mnp) == mnp.blockHeight = NullBlock

\* the horizon is one block further back
PingBlockTooOld_OffByOne(mnp) == mnp.blockHeight < height - PING_BLOCK_HORIZON - 1

\* line 724
PingBlockTooOld(mnp) == mnp.blockHeight < height - PING_BLOCK_HORIZON

\* the window of the early-ping test is one time unit shorter
PingTooEarly_ShortWindow(m, mnp) ==
  IsPingedWithin(m, MERCHANTNODE_MIN_MNP_SECONDS - PING_EARLY_SLACK - 1,
                 mnp.sigTime)

\* line 736
PingTooEarly(m, mnp) ==
  IsPingedWithin(m, MERCHANTNODE_MIN_MNP_SECONDS - PING_EARLY_SLACK, mnp.sigTime)

\* the inventory is sent whether the node is synced or not
Relay_Unsynced(kind, o) == {kind}

\* CMerchantnodePing::Relay / CMerchantnodeBroadcast::Relay
Relay(kind, o) == IF o.synced THEN {kind} ELSE {}

\* the ping is relayed whatever state the record is left in
PingRelay_AnyState(checked, o) ==
  Out(checked, TRUE, 0, Relay("mnp", o), "ping_accepted")

\* lines 767-773: the ping is relayed for a record left in one of three states
PingRelay(checked, o) ==
  IF ~IsEnabled(checked) /\ ~IsExpired(checked) /\ ~IsWatchdogExpired(checked)
  THEN Out(checked, FALSE, 0, {}, "ping_not_relayed")
  ELSE Out(checked, TRUE, 0, Relay("mnp", o), "ping_accepted")

\* a ping that is not relayed is not kept: the record m is handed back
PingUndo(r, m) == IF r.ret THEN r ELSE Out(m, FALSE, 0, {}, r.path)

\* the ping is stored only when it is relayed
PingStore_OnlyWhenRelayed(m, mnp, o) ==
  PingUndo(PingRelay(Check([m EXCEPT !.lastPing = mnp], TRUE, o), o), m)

\* lines 754-773: the ping is stored, the record re-checked, the ping relayed
PingStore(m, mnp, o) ==
  PingRelay(Check([m EXCEPT !.lastPing = mnp], TRUE, o), o)

\* lines 695-774
CheckAndUpdate(m, mnp, fFromNewBroadcast, o) ==
  IF PingTooFarInFuture(mnp) THEN Out(m, FALSE, 1, {}, "ping_future")
  ELSE IF PingBlockUnknown(mnp) THEN Out(m, FALSE, 0, {}, "ping_unknown_block")
  ELSE IF ~fFromNewBroadcast /\ IsUpdateRequired(m)
       THEN Out(m, FALSE, 0, {}, "ping_update_required")
  ELSE IF ~fFromNewBroadcast /\ IsNewStartRequired(m)
       THEN Out(m, FALSE, 0, {}, "ping_new_start_required")
  ELSE IF PingBlockTooOld(mnp) THEN Out(m, FALSE, 0, {}, "ping_old_block")
  ELSE IF PingTooEarly(m, mnp) THEN Out(m, FALSE, 0, {}, "ping_too_early")
  ELSE IF ~PingSignatureOk(mnp, m.pubKeyMerchantnode)
       THEN Out(m, FALSE, 33, {}, "ping_bad_signature")
  ELSE PingStore(m, mnp, o)

\* ------------------------------------ CMerchantnode::UpdateFromNewBroadcast
\* line 55
NotNewer(m, mnb) == mnb.sigTime <= m.sigTime /\ ~mnb.fRecovery

\* the fields are replaced but for the time
TakeFields_KeepsTime(m, mnb) ==
  [m EXCEPT !.pubKeyMerchantnode = mnb.pubKeyMerchantnode,
            !.vchSig = mnb.vchSig,
            !.nProtocolVersion = mnb.nProtocolVersion,
            !.addr = mnb.addr,
            !.nPoSeBanScore = 0,
            !.nPoSeBanHeight = 0,
            !.nTimeLastChecked = 0]

\* lines 57-64
TakeFields(m, mnb) ==
  [m EXCEPT !.pubKeyMerchantnode = mnb.pubKeyMerchantnode,
            !.sigTime = mnb.sigTime,
            !.vchSig = mnb.vchSig,
            !.nProtocolVersion = mnb.nProtocolVersion,
            !.addr = mnb.addr,
            !.nPoSeBanScore = 0,
            !.nPoSeBanHeight = 0,
            !.nTimeLastChecked = 0]

\* lines 66-69: the bundled ping that CheckAndUpdate accepted, as r tells, is
\* the record's last one
TakePingChecked(r, mnb) ==
  IF r.ret THEN Out([r.mn EXCEPT !.lastPing = mnb.lastPing], TRUE, 0, r.relay, r.path)
  ELSE r

\* lines 65-69: the bundled ping
TakePing(m, mnb, o) ==
  IF mnb.lastPing = EmptyPing
  THEN Out([m EXCEPT !.lastPing = EmptyPing], TRUE, 0, {}, "no_ping")
  ELSE TakePingChecked(CheckAndUpdate(m, mnb.lastPing, TRUE, o), mnb)

\* lines 70-83: the announcement is about this very node; p is what the
\* bundled ping left
TakeOwn(p) ==
  IF fMerchantNode /\ p.mn.pubKeyMerchantnode = activePubKeyMerchantnode
  THEN [mn |-> [p.mn EXCEPT !.nPoSeBanScore = -MERCHANTNODE_POSE_BAN_MAX_SCORE],
        ret |-> p.mn.nProtocolVersion = PROTOCOL_VERSION,
        relay |-> p.relay]
  ELSE [mn |-> p.mn, ret |-> TRUE, relay |-> p.relay]

\* lines 53-84: ret, the record and what the bundled ping relayed
UpdateFromNewBroadcast(m, mnb, o) ==
  IF NotNewer(m, mnb) THEN [mn |-> m, ret |-> FALSE, relay |-> {}]
  ELSE TakeOwn(TakePing(TakeFields(m, mnb), mnb, o))

\* -------------------------------------------- CMerchantnodeBroadcast::Update
\* the recovery flag is not looked at
UpdateDuplicate_IgnoresRecovery(m, mnb) == m.sigTime = mnb.sigTime

\* an announcement one time unit older is let through
UpdateOlder_OffByOne(m, mnb) == m.sigTime > mnb.sigTime + 1

\* line 441
UpdateDuplicate(m, mnb) == m.sigTime = mnb.sigTime /\ ~mnb.fRecovery

\* line 449
UpdateOlder(m, mnb) == m.sigTime > mnb.sigTime

\* an announcement of this node's own is treated like any other
UpdateWanted_IntervalOnly(m, mnb) ==
  ~IsBroadcastedWithin(m, MERCHANTNODE_MIN_MNB_SECONDS)

\* line 476
UpdateWanted(m, mnb) ==
  \/ ~IsBroadcastedWithin(m, MERCHANTNODE_MIN_MNB_SECONDS)
  \/ (fMerchantNode /\ mnb.pubKeyMerchantnode = activePubKeyMerchantnode)

\* lines 479-482: the record u that took the announcement is checked and
\* the announcement relayed
UpdateTaken(u, o) ==
  IF u.ret
  THEN Out(Check(u.mn, FALSE, o), TRUE, 0, u.relay \cup Relay("mnb", o),
           "update_applied")
  ELSE Out(u.mn, TRUE, 0, u.relay, "update_refused")

\* the newest entry is taken whenever it comes
UpdateTake_Always(m, mnb, o) == UpdateTaken(UpdateFromNewBroadcast(m, mnb, o), o)

\* lines 476-486
UpdateTake(m, mnb, o) ==
  IF UpdateWanted(m, mnb)
  THEN UpdateTaken(UpdateFromNewBroadcast(m, mnb, o), o)
  ELSE Out(m, TRUE, 0, {}, "update_skipped")

\* the collateral key of the announcement is not compared with the record's
UpdateChecked_NoKeyTest(checked, mnb, o) ==
  IF IsPoSeBanned(checked)
  THEN Out(checked, FALSE, 0, {}, "update_pose_banned")
  ELSE IF ~BroadcastSignatureOk(mnb)
  THEN Out(checked, FALSE, 100, {}, "update_bad_signature")
  ELSE UpdateTake(checked, mnb, o)

\* lines 457-486: the record as pmn->Check() left it
UpdateChecked(checked, mnb, o) ==
  IF IsPoSeBanned(checked)
  THEN Out(checked, FALSE, 0, {}, "update_pose_banned")
  ELSE IF checked.pubKeyCollateralAddress # mnb.pubKeyCollateralAddress
  THEN Out(checked, FALSE, 33, {}, "update_key_mismatch")
  ELSE IF ~BroadcastSignatureOk(mnb)
  THEN Out(checked, FALSE, 100, {}, "update_bad_signature")
  ELSE UpdateTake(checked, mnb, o)

\* lines 437-487
Update(m, mnb, o) ==
  IF UpdateDuplicate(m, mnb) THEN Out(m, FALSE, 0, {}, "update_duplicate")
  ELSE IF UpdateOlder(m, mnb) THEN Out(m, FALSE, 0, {}, "update_older")
  ELSE UpdateChecked(Check(m, FALSE, o), mnb, o)

\* ------------------------------------- CMerchantnodeBroadcast::CheckOutpoint
\* the time of the block at height h: the chain of the model got a block a
\* time unit from the one before StartHeight on
BlockTime(h) == IF h < StartHeight THEN 0 ELSE h - StartHeight + 1

\* line 493: the announcement is about this very node, already active
OutpointOwn(mnb) ==
  /\ fMerchantNode /\ mnb.outpoint = activeOutpoint
  /\ mnb.pubKeyMerchantnode = activePubKeyMerchantnode

\* the confirmations are counted from one block too deep
OutpointImmature_OffByOne(c) == height - c.nHeight < nMasternodeMinimumConfirmations

\* line 523
OutpointImmature(c) == height - c.nHeight + 1 < nMasternodeMinimumConfirmations

\* lines 241-254: the collateral transaction pays the announced key
IsInputAssociatedWithPubkey(mnb, c, o) ==
  o.txFound /\ c.nValue = COLLATERAL_AMOUNT /\ c.payee = mnb.pubKeyCollateralAddress

\* lines 548-561: the block that gave the collateral its confirmations
OutpointBadSigTime(mnb, c) ==
  BlockTime(c.nHeight + nMasternodeMinimumConfirmations - 1) > mnb.sigTime

\* what CheckOutpoint hands back: the result, nDos, whether the announcement
\* is still in mapSeenMerchantnodeBroadcast, the place it returned at
OutpointOut(ret, nDos, seen, path) ==
  [mn |-> mn, ret |-> ret, nDos |-> nDos, relay |-> {}, seen |-> seen,
   path |-> path]

\* an announcement whose collateral is not found is taken out of the seen
\* cache as well
CheckOutpoint_EvictsNotFound(mnb, c, seen, o) ==
  IF OutpointOwn(mnb) THEN OutpointOut(FALSE, 0, seen, "outpoint_own")
  ELSE IF ~BroadcastSignatureOk(mnb)
       THEN OutpointOut(FALSE, 100, seen, "outpoint_bad_signature")
  ELSE IF ~o.lockMain THEN OutpointOut(FALSE, 0, FALSE, "outpoint_no_lock")
  ELSE IF CheckCollateral(c) = COLLATERAL_UTXO_NOT_FOUND
       THEN OutpointOut(FALSE, 0, FALSE, "outpoint_utxo_not_found")
  ELSE IF CheckCollateral(c) = COLLATERAL_INVALID_AMOUNT
       THEN OutpointOut(FALSE, 0, seen, "outpoint_invalid_amount")
  ELSE IF OutpointImmature(c) THEN OutpointOut(FALSE, 0, FALSE, "outpoint_immature")
  ELSE IF ~IsInputAssociatedWithPubkey(mnb, c, o)
       THEN OutpointOut(FALSE, 33, seen, "outpoint_key_mismatch")
  ELSE IF OutpointBadSigTime(mnb, c)
       THEN OutpointOut(FALSE, 0, seen, "outpoint_bad_sigtime")
  ELSE OutpointOut(TRUE, 0, seen, "outpoint_ok")

\* an announcement that found cs_main taken stays in the seen cache
CheckOutpoint_NoLockKeepsSeen(mnb, c, seen, o) ==
  IF OutpointOwn(mnb) THEN OutpointOut(FALSE, 0, seen, "outpoint_own")
  ELSE IF ~BroadcastSignatureOk(mnb)
       THEN OutpointOut(FALSE, 100, seen, "outpoint_bad_signature")
  ELSE IF ~o.lockMain THEN OutpointOut(FALSE, 0, seen, "outpoint_no_lock")
  ELSE IF CheckCollateral(c) = COLLATERAL_UTXO_NOT_FOUND
       THEN OutpointOut(FALSE, 0, seen, "outpoint_utxo_not_found")
  ELSE IF CheckCollateral(c) = COLLATERAL_INVALID_AMOUNT
       THEN OutpointOut(FALSE, 0, seen, "outpoint_invalid_amount")
  ELSE IF OutpointImmature(c) THEN OutpointOut(FALSE, 0, FALSE, "outpoint_immature")
  ELSE IF ~IsInputAssociatedWithPubkey(mnb, c, o)
       THEN OutpointOut(FALSE, 33, seen, "outpoint_key_mismatch")
  ELSE IF OutpointBadSigTime(mnb, c)
       THEN OutpointOut(FALSE, 0, seen, "outpoint_bad_sigtime")
  ELSE OutpointOut(TRUE, 0, seen, "outpoint_ok")

\* lines 489-564
CheckOutpoint(mnb, c, seen, o) ==
  IF OutpointOwn(mnb) THEN OutpointOut(FALSE, 0, seen, "outpoint_own")
  ELSE IF ~BroadcastSignatureOk(mnb)
       THEN OutpointOut(FALSE, 100, seen, "outpoint_bad_signature")
  ELSE IF ~o.lockMain THEN OutpointOut(FALSE, 0, FALSE, "outpoint_no_lock")
  ELSE IF CheckCollateral(c) = COLLATERAL_UTXO_NOT_FOUND
       THEN OutpointOut(FALSE, 0, seen, "outpoint_utxo_not_found")
  ELSE IF CheckCollateral(c) = COLLATERAL_INVALID_AMOUNT
       THEN OutpointOut(FALSE, 0, seen, "outpoint_invalid_amount")
  ELSE IF OutpointImmature(c) THEN OutpointOut(FALSE, 0, FALSE, "outpoint_immature")
  ELSE IF ~IsInputAssociatedWithPubkey(mnb, c, o)
       THEN OutpointOut(FALSE, 33, seen, "outpoint_key_mismatch")
  ELSE IF OutpointBadSigTime(mnb, c)
       THEN OutpointOut(FALSE, 0, seen, "outpoint_bad_sigtime")
  ELSE OutpointOut(TRUE, 0, seen, "outpoint_ok")

\* ------------------------------------ CMerchantnodeBroadcast::SimpleCheck
\* what the checks that do not read the chain find in an announcement:
\* IsValidNetAddr(), the sizes of the scripts of the two keys, an empty
\* vin.scriptSig, the network the node runs on and the port of addr
Shapes ==
  [validAddr : BOOLEAN, collateralScript25 : BOOLEAN, serviceScript25 : BOOLEAN,
   scriptSigEmpty : BOOLEAN, mainnet : BOOLEAN, defaultPort : BOOLEAN]

\* what a SimpleCheck hands back: the result, nDos, the state it leaves in
\* the announcement, the place it returned at
SimpleOut(ret, nDos, nActiveState, path) ==
  [ret |-> ret, nDos |-> nDos, relay |-> {}, nActiveState |-> nActiveState,
   path |-> path]

\* CMerchantnodePing::SimpleCheck, lines 670-693: the result and nDos
PingSimpleCheck(mnp) ==
  IF PingTooFarInFuture(mnp) THEN [ret |-> FALSE, nDos |-> 1]
  ELSE IF PingBlockUnknown(mnp) THEN [ret |-> FALSE, nDos |-> 0]
  ELSE [ret |-> TRUE, nDos |-> 0]

\* line 388
BroadcastTooFarInFuture(mnb) == mnb.sigTime > now + FUTURE_DRIFT

\* lines 429-432
PortOk(sh) == IF sh.mainnet THEN sh.defaultPort ELSE ~sh.defaultPort

\* lines 400-434, with the state s and the nDos that lines 395-398 left
SimpleCheckRest(mnb, sh, s, nDos) ==
  IF mnb.nProtocolVersion < PROTOCOL_VERSION
  THEN SimpleOut(FALSE, nDos, s, "simple_outdated")
  ELSE IF ~sh.collateralScript25
  THEN SimpleOut(FALSE, 100, s, "simple_collateral_key_size")
  ELSE IF ~sh.serviceScript25
  THEN SimpleOut(FALSE, 100, s, "simple_service_key_size")
  ELSE IF ~sh.scriptSigEmpty
  THEN SimpleOut(FALSE, 100, s, "simple_script_sig")
  ELSE IF ~PortOk(sh) THEN SimpleOut(FALSE, nDos, s, "simple_port")
  ELSE SimpleOut(TRUE, nDos, s, "simple_ok")

\* lines 395-398: p is what the SimpleCheck of the bundled ping handed back
SimpleCheckPing(mnb, sh, p) ==
  IF p.ret THEN SimpleCheckRest(mnb, sh, MERCHANTNODE_ENABLED, p.nDos)
  ELSE SimpleCheckRest(mnb, sh, MERCHANTNODE_EXPIRED, p.nDos)

\* lines 376-435
SimpleCheck(mnb, sh) ==
  IF ~sh.validAddr
  THEN SimpleOut(FALSE, 0, MERCHANTNODE_ENABLED, "simple_bad_addr")
  ELSE IF BroadcastTooFarInFuture(mnb)
  THEN SimpleOut(FALSE, 1, MERCHANTNODE_ENABLED, "simple_future")
  ELSE IF mnb.lastPing = EmptyPing
  THEN SimpleCheckPing(mnb, sh, [ret |-> FALSE, nDos |-> 0])
  ELSE SimpleCheckPing(mnb, sh, PingSimpleCheck(mnb.lastPing))

\* cs_main is waited for: the thread goes on only when it can have it
TryLock_Blocking(owner, t) ==
  [proceeds |-> owner \in {NoOwner, t}, lockMain |-> TRUE]

\* TRY_LOCK(cs_main, lockMain), line 138, by the thread t while owner holds
\* cs_main: the thread goes on at once, lockMain tells whether it got the
\* lock (cs_main is recursive: its owner gets it again)
TryLock(owner, t) ==
  [proceeds |-> TRUE, lockMain |-> owner \in {NoOwner, t}]

\* ---------------------------------------------------------------- the inputs
\* the collaborators' answers to a periodic Check(); answers nobody reads
\* (the rest once shutdown is requested or the try-lock fails) are left out
CheckOracles ==
  { o \in Oracles :
      (o.shutdown \/ ~o.lockMain) => (o.size = 1 /\ ~o.listSynced) }

\* a message handler runs under cs_main (AssertLockHeld, line 682) while the
\* node is not shutting down
HandlerOracles == { o \in Oracles : o.lockMain /\ ~o.shutdown }

\* the answers CheckAndUpdate may get: its caller holds cs_main
PingOracles == { o \in Oracles : o.lockMain }

\* the answers offered to the handlers in a step
OfferedOracles == { o \in HandlerOracles : o.size = MaxNetSize }

Ping(sigTime, blockHeight, signer) ==
  [outpoint |-> TheOutpoint, blockHeight |-> blockHeight, sigTime |-> sigTime,
   signer |-> signer]

\* the blocks a ping may name: an unknown one, the one just behind the
\* horizon, the one at the horizon, the tip
PingBlocks ==
  {NullBlock, height - PING_BLOCK_HORIZON - 1, height - PING_BLOCK_HORIZON, height}

\* the block the well-formed pings name: the first one of the chain that is
\* inside the horizon at every height of the model
PingBlock == MaxHeight - PING_BLOCK_HORIZON

\* every ping CheckAndUpdate may be given
Pings == { Ping(t, b, k) : t \in Times, b \in PingBlocks, k \in ServiceKeys }

\* the pings offered in a step: the well-formed one of the present, and the
\* ones with one defect: from too far in the future, naming an unknown
\* block or one behind the horizon, signed with another service key
OfferedPings ==
  { Ping(t, PingBlock, mn.pubKeyMerchantnode) :
      t \in {now, now + FUTURE_DRIFT + 1} }
  \cup { Ping(now, b, mn.pubKeyMerchantnode) :
           b \in {NullBlock, height - PING_BLOCK_HORIZON - 1} }
  \cup { Ping(now, PingBlock, k) : k \in ServiceKeys }

Unsigned(t, fRecovery, collateralKey, serviceKey, version, addr, ping) ==
  [sigTime |-> t, fRecovery |-> fRecovery, outpoint |-> TheOutpoint,
   pubKeyCollateralAddress |-> collateralKey, pubKeyMerchantnode |-> serviceKey,
   nProtocolVersion |-> version, addr |-> addr, lastPing |-> ping]

Signed(u, key) ==
  [sigTime |-> u.sigTime, fRecovery |-> u.fRecovery, outpoint |-> u.outpoint,
   pubKeyCollateralAddress |-> u.pubKeyCollateralAddress,
   pubKeyMerchantnode |-> u.pubKeyMerchantnode,
   nProtocolVersion |-> u.nProtocolVersion, addr |-> u.addr,
   lastPing |-> u.lastPing, vchSig |-> SignBroadcast(u, key)]

\* the pings an announcement may bundle: none, one made with the
\* announcement, one that names an unknown block
BundledPings(t, serviceKey) ==
  {EmptyPing, Ping(t, PingBlock, serviceKey), Ping(t, NullBlock, serviceKey)}

\* the times an announcement may carry: around the record's and the present
BroadcastTimes == {mn.sigTime - 1, mn.sigTime, mn.sigTime + 1, now} \cap Times

Versions == {OLD_PROTOCOL_VERSION, PROTOCOL_VERSION}

\* every announcement of time t Update may be given
BroadcastsAt(t) ==
  UNION { { Signed(Unsigned(t, r, ck, sk, v, a, p), signer) :
              r \in BOOLEAN, ck \in CollateralKeys, v \in Versions,
              a \in Addrs, p \in BundledPings(t, sk),
              signer \in CollateralKeys } :
          sk \in ServiceKeys }

\* every announcement Update may be given
Broadcasts == UNION { BroadcastsAt(t) : t \in BroadcastTimes }

\* the plain announcement of time t: the owner's, nothing changed, no ping
Plain(t, fRecovery, collateralKey, signer) ==
  Signed(Unsigned(t, fRecovery, collateralKey, mn.pubKeyMerchantnode,
                  PROTOCOL_VERSION, mn.addr, EmptyPing), signer)

\* the time of an announcement Update can take: the present, or the
\* record's own time under the recovery flag
TakeTime == IF now > mn.sigTime THEN now ELSE mn.sigTime

Takeable(sk, v, p) ==
  Signed(Unsigned(TakeTime, TakeTime = mn.sigTime, mn.pubKeyCollateralAddress,
                  sk, v, mn.addr, p), mn.pubKeyCollateralAddress)

\* the plain announcements Update must refuse: not newer, with a foreign
\* collateral key, with a forged signature
Refusable ==
  { Plain(t, r, mn.pubKeyCollateralAddress, mn.pubKeyCollateralAddress) :
      t \in { x \in BroadcastTimes : x <= mn.sigTime }, r \in BOOLEAN }
  \cup { Plain(TakeTime, TakeTime = mn.sigTime, ck, signer) :
           ck \in CollateralKeys, signer \in CollateralKeys }

\* the announcements offered in a step: the owner's that Update can take,
\* with every service key, version and bundled ping, and the refusable ones
OfferedBroadcasts ==
  { Takeable(sk, v, IF bundled THEN Ping(TakeTime, PingBlock, sk) ELSE EmptyPing) :
      sk \in ServiceKeys, v \in Versions, bundled \in BOOLEAN }
  \cup { Takeable(mn.pubKeyMerchantnode, PROTOCOL_VERSION,
                  Ping(TakeTime, NullBlock, mn.pubKeyMerchantnode)) }
  \cup Refusable

\* the same without a change of service key or version
PlainBroadcasts ==
  { Takeable(mn.pubKeyMerchantnode, mn.nProtocolVersion, p) :
      p \in {EmptyPing, Ping(TakeTime, PingBlock, mn.pubKeyMerchantnode)} }
  \cup Refusable

\* ------------------------------------------------------------ the state machine
NoCall ==
  [op |-> "none", from |-> "none", path |-> "none", ret |-> FALSE, nDos |-> 0,
   relay |-> {}]

\* the call op made on the record mn, and how it returned
Called(op, r) ==
  [op |-> op, from |-> mn.nActiveState, path |-> r.path, ret |-> r.ret,
   nDos |-> r.nDos, relay |-> r.relay]

\* CMerchantnode(const CMerchantnodeBroadcast&), lines 42-48, with the
\* defaults of merchantnode.h for the members the constructor leaves out
FromBroadcast(mnb, nActiveState) ==
  [nActiveState |-> nActiveState, nProtocolVersion |-> mnb.nProtocolVersion,
   sigTime |-> mnb.sigTime, outpoint |-> mnb.outpoint, addr |-> mnb.addr,
   pubKeyCollateralAddress |-> mnb.pubKeyCollateralAddress,
   pubKeyMerchantnode |-> mnb.pubKeyMerchantnode,
   nTimeLastWatchdogVote |-> mnb.sigTime, lastPing |-> mnb.lastPing,
   vchSig |-> mnb.vchSig, nPoSeBanScore |-> 0, nPoSeBanHeight |-> 0,
   nTimeLastChecked |-> 0, fUnitTest |-> FALSE]

\* the announcements a record starts from: they passed SimpleCheck, which
\* leaves EXPIRED when the ping is empty (line 395-398)
FirstBroadcasts ==
  { Signed(Unsigned(0, FALSE, "K1", activePubKeyMerchantnode, PROTOCOL_VERSION,
                    "A1", p), "K1") :
      p \in {EmptyPing, Ping(0, PingBlock, activePubKeyMerchantnode)} }

Init ==
  /\ now = StartTime
  /\ height = StartHeight
  /\ coin = Coin(COLLATERAL_AMOUNT, StartHeight - nMasternodeMinimumConfirmations)
  /\ fMerchantNode \in BOOLEAN
  /\ seenMnb = TRUE
  /\ last = NoCall
  /\ threads = NoThreads
  /\ \E mnb \in FirstBroadcasts :
       mn = FromBroadcast(mnb, IF mnb.lastPing = EmptyPing
                               THEN MERCHANTNODE_EXPIRED ELSE MERCHANTNODE_ENABLED)

\* time passes
Tick ==
  /\ now < MaxTime
  /\ now' = now + 1
  /\ last' = NoCall
  /\ UNCHANGED <<threads, mn, height, coin, fMerchantNode, seenMnb>>

\* a block is connected
NewBlock ==
  /\ height < MaxHeight
  /\ height' = height + 1
  /\ last' = NoCall
  /\ UNCHANGED <<threads, mn, now, coin, fMerchantNode, seenMnb>>

\* the collateral is spent, or a reorganisation brings it back
SpendCollateral ==
  /\ coin.found
  /\ coin' = [coin EXCEPT !.found = FALSE]
  /\ last' = NoCall
  /\ UNCHANGED <<threads, mn, now, height, fMerchantNode, seenMnb>>

RestoreCollateral ==
  /\ ~coin.found
  /\ coin' = [coin EXCEPT !.found = TRUE]
  /\ last' = NoCall
  /\ UNCHANGED <<threads, mn, now, height, fMerchantNode, seenMnb>>

\* the verification collaborator scores the record
PoSeIncrease ==
  /\ mn' = IncreasePoSeBanScore(mn)
  /\ mn' # mn
  /\ last' = NoCall
  /\ UNCHANGED <<threads, now, height, coin, fMerchantNode, seenMnb>>

PoSeDecrease ==
  /\ mn' = DecreasePoSeBanScore(mn)
  /\ mn' # mn
  /\ last' = NoCall
  /\ UNCHANGED <<threads, now, height, coin, fMerchantNode, seenMnb>>

\* the caller is done with the result of the last call
Forget ==
  /\ last # NoCall
  /\ last' = NoCall
  /\ UNCHANGED <<threads, mn, now, height, coin, fMerchantNode, seenMnb>>

\* the call op on the record returns r
Returns(op, r) ==
  /\ mn' = r.mn
  /\ last' = Called(op, r)
  /\ UNCHANGED <<threads, now, height, coin, fMerchantNode, seenMnb>>

\* Check() returns nothing: c is the record it leaves and where it returned
CheckReturns(c) == Returns("Check", Out(c.mn, FALSE, 0, {}, c.path))

\* CMerchantnode::Check(fForce), the periodic sweep
DoCheck ==
  \E fForce \in BOOLEAN, o \in CheckOracles : CheckReturns(CheckAt(mn, fForce, o))

\* CMerchantnodeBroadcast::Update(pmn, nDos, connman)
UpdateStep(mnb, o) == Returns("Update", Update(mn, mnb, o))

\* CMerchantnodePing::CheckAndUpdate(pmn, false, nDos, connman)
PingStep(mnp, o) == Returns("CheckAndUpdate", CheckAndUpdate(mn, mnp, FALSE, o))

DoUpdate == \E mnb \in OfferedBroadcasts, o \in OfferedOracles : UpdateStep(mnb, o)

DoPing == \E mnp \in OfferedPings, o \in OfferedOracles : PingStep(mnp, o)

DoPlainUpdate == \E mnb \in PlainBroadcasts, o \in OfferedOracles : UpdateStep(mnb, o)

\* the heartbeats and announcements of a record as time passes, on a chain
\* that stands still and keeps the collateral
Next == Tick \/ DoCheck \/ DoUpdate \/ DoPing \/ Forget

Spec == Init /\ [][Next]_vars

\* the answers CheckOutpoint may get: TRY_LOCK(cs_main), GetTransaction()
OutpointOracles == [lockMain : BOOLEAN, txFound : BOOLEAN]

\* the announcements CheckOutpoint may be given
OutpointBroadcasts ==
  { Signed(Unsigned(t, FALSE, ck, sk, PROTOCOL_VERSION, "A1", EmptyPing), signer) :
      t \in Times, ck \in CollateralKeys, sk \in ServiceKeys,
      signer \in CollateralKeys }

\* the heights the collateral may have got into the chain at
CollateralHeights == (StartHeight - nMasternodeMinimumConfirmations)..StartHeight

InitOutpoint ==
  /\ now = StartTime
  /\ height = StartHeight
  /\ \E v \in {COLLATERAL_AMOUNT, COLLATERAL_AMOUNT - 1}, h \in CollateralHeights :
       coin = Coin(v, h)
  /\ fMerchantNode \in BOOLEAN
  /\ seenMnb = TRUE
  /\ last = NoCall
  /\ threads = NoThreads
  /\ \E mnb \in FirstBroadcasts : mn = FromBroadcast(mnb, MERCHANTNODE_ENABLED)

\* the announcement comes in again and is put in mapSeenMerchantnodeBroadcast
SeeAgain ==
  /\ ~seenMnb
  /\ seenMnb' = TRUE
  /\ last' = NoCall
  /\ UNCHANGED <<threads, mn, now, height, coin, fMerchantNode>>

\* CheckOutpoint returns r
OutpointReturns(r) ==
  /\ seenMnb' = r.seen
  /\ last' = Called("CheckOutpoint", r)
  /\ UNCHANGED <<threads, mn, now, height, coin, fMerchantNode>>

\* CMerchantnodeBroadcast::CheckOutpoint(nDos)
DoCheckOutpoint ==
  \E mnb \in OutpointBroadcasts, o \in OutpointOracles :
    OutpointReturns(CheckOutpoint(mnb, coin, seenMnb, o))

\* the collateral of an announcement as the chain grows
NextOutpoint ==
  \/ NewBlock \/ SpendCollateral \/ RestoreCollateral
  \/ SeeAgain \/ DoCheckOutpoint \/ Forget

SpecOutpoint == InitOutpoint /\ [][NextOutpoint]_vars

\* the announcements of a record as time passes, without its heartbeats
NextAnnounce == Tick \/ DoCheck \/ DoUpdate \/ Forget

SpecAnnounce == Init /\ [][NextAnnounce]_vars

\* the scoring, the banning and the spending of a record as the chain
\* grows, at one time
NextBan ==
  \/ NewBlock \/ SpendCollateral \/ RestoreCollateral
  \/ PoSeIncrease \/ PoSeDecrease
  \/ DoCheck \/ DoPlainUpdate \/ DoPing \/ Forget

SpecBan == Init /\ [][NextBan]_vars

\* the announcements the records of the sweep start from: of either
\* protocol version, with or without a first ping; the record is this
\* node's own when the node runs a merchant node
SweepBroadcasts ==
  { Signed(Unsigned(0, FALSE, "K1", activePubKeyMerchantnode, v, "A1",
                    IF pinged THEN Ping(0, PingBlock, activePubKeyMerchantnode)
                    ELSE EmptyPing), "K1") :
      v \in Versions, pinged \in BOOLEAN }

InitSweep ==
  /\ now = StartTime
  /\ height = StartHeight
  /\ coin = Coin(COLLATERAL_AMOUNT, StartHeight - nMasternodeMinimumConfirmations)
  /\ fMerchantNode \in BOOLEAN
  /\ seenMnb = TRUE
  /\ last = NoCall
  /\ threads = NoThreads
  /\ \E mnb \in SweepBroadcasts :
       mn = FromBroadcast(mnb, IF mnb.lastPing = EmptyPing
                               THEN MERCHANTNODE_EXPIRED ELSE MERCHANTNODE_ENABLED)

\* the periodic sweep and the heartbeats of a record that gets no
\* announcement, while time passes, the chain grows, the collateral may be
\* spent and the verification collaborator scores the record
NextSweep ==
  \/ Tick \/ NewBlock \/ SpendCollateral \/ PoSeIncrease
  \/ DoCheck \/ DoPing \/ Forget

SpecSweep == InitSweep /\ [][NextSweep]_vars

\* the same, where the periodic sweep keeps coming: a Check of the record
\* that can be made is made in the end
SpecSweepFair == SpecSweep /\ WF_vars(DoCheck)

\* the announcements SimpleCheck may be given: of any time and either
\* version, with no ping or a ping of any time that names a known or an
\* unknown block
SimpleBroadcasts ==
  { Signed(Unsigned(t, FALSE, "K1", activePubKeyMerchantnode, v, "A1", p), "K1") :
      t \in Times, v \in Versions,
      p \in {EmptyPing}
            \cup { Ping(pt, b, activePubKeyMerchantnode) :
                     pt \in Times, b \in {NullBlock, PingBlock} } }

\* the shape without a defect on the main network
SoundShape ==
  [validAddr |-> TRUE, collateralScript25 |-> TRUE, serviceScript25 |-> TRUE,
   scriptSigEmpty |-> TRUE, mainnet |-> TRUE, defaultPort |-> TRUE]

\* the shapes offered in a step: the sound one and the ones with one defect
OfferedShapes ==
  { SoundShape,
    [SoundShape EXCEPT !.validAddr = FALSE],
    [SoundShape EXCEPT !.collateralScript25 = FALSE],
    [SoundShape EXCEPT !.serviceScript25 = FALSE],
    [SoundShape EXCEPT !.scriptSigEmpty = FALSE],
    [SoundShape EXCEPT !.defaultPort = FALSE] }

\* SimpleCheck returns r: the record is not touched
SimpleReturns(r) ==
  /\ last' = Called("SimpleCheck", r)
  /\ UNCHANGED <<threads, mn, now, height, coin, fMerchantNode, seenMnb>>

\* CMerchantnodeBroadcast::SimpleCheck(nDos)
DoSimpleCheck ==
  \E mnb \in SimpleBroadcasts, sh \in OfferedShapes :
    SimpleReturns(SimpleCheck(mnb, sh))

\* the announcements that come in for a record while time passes and the
\* record is checked
NextSimple == Tick \/ DoCheck \/ DoSimpleCheck \/ Forget

SpecSimple == Init /\ [][NextSimple]_vars

\* ------------------------------------------------- the two threads, step by step
\* the thread t is at the place p, the locks as given
At(t, p, cs, cs_main, msg) ==
  [cs |-> cs, cs_main |-> cs_main, pc |-> [threads.pc EXCEPT ![t] = p],
   msg |-> msg]

\* the rest of the state is left alone
Untouched == UNCHANGED <<now, height, coin, fMerchantNode, seenMnb>>

\* the sweep calls Check() on the record and comes to LOCK(cs), line 124
SweepCall ==
  /\ threads.pc["sweep"] = "idle"
  /\ threads' = At("sweep", "check_wants_cs", threads.cs, threads.cs_main, threads.msg)
  /\ UNCHANGED <<mn, last>> /\ Untouched

\* LOCK(cs), line 124: the sweep waits until cs is free
SweepLock ==
  /\ threads.pc["sweep"] = "check_wants_cs"
  /\ threads.cs = NoOwner
  /\ threads' = At("sweep", "check_has_cs", "sweep", threads.cs_main, threads.msg)
  /\ UNCHANGED <<mn, last>> /\ Untouched

\* lines 126-239 under cs, with what TRY_LOCK(cs_main) gave; cs_main, when
\* got, and cs are released on return
SweepRuns(c) ==
  /\ mn' = c.mn
  /\ last' = Called("Check", Out(c.mn, FALSE, 0, {}, c.path))
  /\ threads' = At("sweep", "idle", NoOwner, threads.cs_main, threads.msg)
  /\ Untouched

SweepRun ==
  /\ threads.pc["sweep"] = "check_has_cs"
  /\ TryLock(threads.cs_main, "sweep").proceeds
  /\ \E o \in CheckOracles :
       /\ o.lockMain = TryLock(threads.cs_main, "sweep").lockMain
       /\ SweepRuns(CheckAt(mn, FALSE, o))

\* the places CheckAndUpdate returns at after it stored the ping
StoredPaths == {"ping_accepted", "ping_not_relayed"}

\* lines 695-756 under cs_main: r is how the whole call would return; the
\* ping that passed the tests is stored and the handler comes to the
\* LOCK(cs) of Check(true), else the call returns and cs_main is released
PingTested(mnp, r) ==
  IF r.path \in StoredPaths
  THEN /\ mn' = [mn EXCEPT !.lastPing = mnp]
       /\ last' = last
       /\ threads' = At("handler", "ping_wants_cs", threads.cs, "handler", "none")
  ELSE /\ mn' = r.mn
       /\ last' = Called("CheckAndUpdate", r)
       /\ threads' = threads

\* the handler takes cs_main and calls CheckAndUpdate(pmn, false, nDos)
PingCall ==
  /\ threads.pc["handler"] = "idle"
  /\ threads.cs_main = NoOwner
  /\ \E mnp \in OfferedPings, o \in OfferedOracles :
       PingTested(mnp, CheckAndUpdate(mn, mnp, FALSE, o))
  /\ Untouched

\* LOCK(cs), line 124, in the Check(true) of line 766
PingLock ==
  /\ threads.pc["handler"] = "ping_wants_cs"
  /\ threads.cs = NoOwner
  /\ threads' = At("handler", "ping_has_cs", "handler", "handler", "none")
  /\ UNCHANGED <<mn, last>> /\ Untouched

\* the call returns r: the handler releases cs and cs_main
HandlerReturns(op, r) ==
  /\ mn' = r.mn
  /\ last' = Called(op, r)
  /\ threads' = At("handler", "idle", NoOwner, NoOwner, "none")
  /\ Untouched

\* lines 126-239 under cs and the cs_main the handler holds, then lines
\* 767-773
PingRun ==
  /\ threads.pc["handler"] = "ping_has_cs"
  /\ TryLock(threads.cs_main, "handler").proceeds
  /\ \E o \in OfferedOracles :
       /\ o.lockMain = TryLock(threads.cs_main, "handler").lockMain
       /\ HandlerReturns("CheckAndUpdate", PingRelay(Check(mn, TRUE, o), o))

\* the announcements the handler is given: the plain ones, without a ping
LockBroadcasts == { mnb \in PlainBroadcasts : mnb.lastPing = EmptyPing }

\* lines 437-453 under cs_main: a duplicate or an older announcement is
\* refused, any other brings the handler to the LOCK(cs) of line 455
UpdateTested(mnb, o) ==
  IF UpdateDuplicate(mn, mnb) \/ UpdateOlder(mn, mnb)
  THEN /\ mn' = mn
       /\ last' = Called("Update", Update(mn, mnb, o))
       /\ threads' = threads
  ELSE /\ mn' = mn
       /\ last' = last
       /\ threads' = At("handler", "update_wants_cs", threads.cs, "handler", mnb)

\* the handler takes cs_main and calls Update(pmn, nDos)
UpdateCall ==
  /\ threads.pc["handler"] = "idle"
  /\ threads.cs_main = NoOwner
  /\ \E mnb \in LockBroadcasts, o \in OfferedOracles : UpdateTested(mnb, o)
  /\ Untouched

\* LOCK(cs), line 124, in the Check() of line 455
UpdateLock ==
  /\ threads.pc["handler"] = "update_wants_cs"
  /\ threads.cs = NoOwner
  /\ threads' = At("handler", "update_has_cs", "handler", "handler", threads.msg)
  /\ UNCHANGED <<mn, last>> /\ Untouched

\* lines 457-478 on the record the Check of line 455 left: r is how the
\* whole call would return; an announcement that is taken brings the
\* handler, with the fields replaced, to the LOCK(cs) of line 480
UpdateGoesOn(checked, r, o) ==
  IF r.path = "update_applied"
  THEN /\ mn' = UpdateFromNewBroadcast(checked, threads.msg, o).mn
       /\ last' = last
       /\ threads' = At("handler", "update_wants_cs2", NoOwner, "handler", threads.msg)
       /\ Untouched
  ELSE HandlerReturns("Update", r)

\* lines 126-239 under cs for the Check of line 455, then lines 457-478
UpdateRun ==
  /\ threads.pc["handler"] = "update_has_cs"
  /\ TryLock(threads.cs_main, "handler").proceeds
  /\ \E o \in OfferedOracles :
       /\ o.lockMain = TryLock(threads.cs_main, "handler").lockMain
       /\ UpdateGoesOn(Check(mn, FALSE, o),
                       UpdateChecked(Check(mn, FALSE, o), threads.msg, o), o)

\* LOCK(cs), line 124, in the Check() of line 480
UpdateLock2 ==
  /\ threads.pc["handler"] = "update_wants_cs2"
  /\ threads.cs = NoOwner
  /\ threads' = At("handler", "update_has_cs2", "handler", "handler", threads.msg)
  /\ UNCHANGED <<mn, last>> /\ Untouched

\* lines 126-239 under cs for the Check of line 480, then lines 481-486
UpdateRun2 ==
  /\ threads.pc["handler"] = "update_has_cs2"
  /\ TryLock(threads.cs_main, "handler").proceeds
  /\ \E o \in OfferedOracles :
       /\ o.lockMain = TryLock(threads.cs_main, "handler").lockMain
       /\ HandlerReturns("Update",
                         UpdateTaken([mn |-> mn, ret |-> TRUE, relay |-> {}], o))

\* the sweep and the handler of the pings and announcements of a record,
\* each step of theirs on its own, at one time
NextLocks ==
  \/ Forget
  \/ SweepCall \/ SweepLock \/ SweepRun
  \/ PingCall \/ PingLock \/ PingRun
  \/ UpdateCall \/ UpdateLock \/ UpdateRun \/ UpdateLock2 \/ UpdateRun2

\* a thread that can go on does go on, and a thread that waits for cs gets
\* it when cs is free again and again
FairLocks ==
  /\ WF_vars(SweepRun) /\ WF_vars(PingRun) /\ WF_vars(UpdateRun)
  /\ WF_vars(UpdateRun2)
  /\ SF_vars(SweepLock) /\ SF_vars(PingLock) /\ SF_vars(UpdateLock)
  /\ SF_vars(UpdateLock2)

SpecLocks == Init /\ [][NextLocks]_vars /\ FairLocks

\* the pings of the record's service key that come in around the present:
\* late, in time, ahead by the drift that is let through, ahead by more
AheadPings ==
  { Ping(t, PingBlock, mn.pubKeyMerchantnode) :
      t \in ((now - 1)..(now + FUTURE_DRIFT + 1)) \cap Times }

DoAheadPing == \E mnp \in AheadPings, o \in OfferedOracles : PingStep(mnp, o)

\* the heartbeats of a record whose owner's clock is ahead or behind, while
\* time passes and the record is checked
NextPings == Tick \/ DoCheck \/ DoAheadPing \/ Forget

SpecPings == Init /\ [][NextPings]_vars

\* ------------------------------------------------------------------ the claims
HandlerOps == {"Check", "Update", "CheckAndUpdate"}

\* C1: OUTPOINT_SPENT is absorbing: once the record's state is OUTPOINT_SPENT
\* no Check, Update or CheckAndUpdate (and no change of the chain, the score
\* or the collateral) takes it to another state.
C1_SpentIsAbsorbing == [][IsOutpointSpent(mn) => IsOutpointSpent(mn')]_vars

\* an announcement was taken into a spent record whose collateral a
\* reorganisation has brought back, and the record is still spent
C1_Witness ==
  /\ IsOutpointSpent(mn) /\ coin.found
  /\ last.op = "Update" /\ last.path = "update_applied"
  /\ last.from = MERCHANTNODE_OUTPOINT_SPENT

\* C2 (as claimed): a live record whose score has reached the maximum cannot
\* get out of it through a handler: a Check, Update or CheckAndUpdate either
\* bans it or leaves the score at the maximum.
C2_ScoreAtMaxEndsBanned ==
  [][(/\ mn.nPoSeBanScore >= MERCHANTNODE_POSE_BAN_MAX_SCORE
      /\ ~IsPoSeBanned(mn) /\ ~IsOutpointSpent(mn) /\ coin.found
      /\ last'.op \in HandlerOps)
     => (\/ IsPoSeBanned(mn')
         \/ mn'.nPoSeBanScore >= MERCHANTNODE_POSE_BAN_MAX_SCORE)]_vars

\* C3 (as claimed): a banned record stays banned while the chain is below
\* its ban height.
C3_BannedUntilBanHeight ==
  [][(IsPoSeBanned(mn) /\ height < mn.nPoSeBanHeight) => IsPoSeBanned(mn')]_vars

\* C3 (amended): a banned record stays banned while the chain is below its
\* ban height, unless a Check finds its collateral spent, which leaves it
\* OUTPOINT_SPENT.
C3_BannedUntilBanHeightOrSpent ==
  [][(IsPoSeBanned(mn) /\ height < mn.nPoSeBanHeight)
     => (\/ IsPoSeBanned(mn')
         \/ (IsOutpointSpent(mn') /\ ~coin.found))]_vars

\* a Check ran on a banned record after the chain had grown, below the ban
\* height, and left it banned
C3_Witness ==
  /\ IsPoSeBanned(mn) /\ height < mn.nPoSeBanHeight /\ height > StartHeight
  /\ last.op = "Check" /\ last.path = "still_banned"
  /\ last.from = MERCHANTNODE_POSE_BAN

\* Between two calls: the record, the clock and the chain of every reachable
\* state are also those of a state between two calls (Forget), so what holds
\* of them between calls holds of them always.
BetweenCalls == last = NoCall

\* the handler left the record and the network as they were
NoOp(r) == ~r.ret /\ r.mn = mn /\ r.relay = {}

\* the record carries the announcement's fields
Applied(m, mnb) ==
  /\ m.addr = mnb.addr
  /\ m.pubKeyMerchantnode = mnb.pubKeyMerchantnode
  /\ m.nProtocolVersion = mnb.nProtocolVersion
  /\ m.vchSig = mnb.vchSig
  /\ m.sigTime = mnb.sigTime

\* the announcement is the owner's: the record's collateral key, its signature
Genuine(mnb) ==
  /\ mnb.pubKeyCollateralAddress = mn.pubKeyCollateralAddress
  /\ BroadcastSignatureOk(mnb)

\* C4: Update with an announcement strictly older than the record returns
\* false with nDos 0 and leaves every field of the record unchanged,
\* whatever the signature, the keys and the recovery flag.
C4_OlderIsRejected ==
  BetweenCalls =>
  \A t \in { x \in Times : x < mn.sigTime } :
    \A mnb \in BroadcastsAt(t), o \in Oracles :
      LET r == Update(mn, mnb, o) IN NoOp(r) /\ r.nDos = 0

\* Update has just refused an older announcement
C4_Witness ==
  /\ last.op = "Update" /\ last.path = "update_older"
  /\ ~last.ret /\ last.nDos = 0 /\ mn.sigTime > 0

\* C5 (as claimed, for the owner's announcements): at equal sigTime Update
\* is a no-op without the recovery flag, and with it returns true and
\* applies the announcement's fields.
C5_EqualTime ==
  BetweenCalls =>
  \A mnb \in BroadcastsAt(mn.sigTime), o \in HandlerOracles :
    Genuine(mnb)
      => LET r == Update(mn, mnb, o)
         IN IF mnb.fRecovery THEN r.ret /\ Applied(r.mn, mnb) ELSE NoOp(r)

\* C5 (amended): at equal sigTime Update is a no-op without the recovery
\* flag; with it the announcement is treated as a newer one: refused when the
\* record is banned after its Check (nDos 0), when the collateral keys differ
\* (nDos 33) or the signature is bad (nDos 100), else true is returned, and
\* the fields are applied only when the record was not announced within
\* MERCHANTNODE_MIN_MNB_SECONDS or the announcement is this node's own.
C5_EqualTimeAmended ==
  BetweenCalls =>
  \A mnb \in BroadcastsAt(mn.sigTime), o \in Oracles :
         LET r == Update(mn, mnb, o)
             checked == Check(mn, FALSE, o)
         IN IF ~mnb.fRecovery THEN NoOp(r) /\ r.nDos = 0
            ELSE IF IsPoSeBanned(checked)
            THEN ~r.ret /\ r.nDos = 0 /\ r.mn = checked
            ELSE IF mnb.pubKeyCollateralAddress # mn.pubKeyCollateralAddress
            THEN ~r.ret /\ r.nDos = 33 /\ r.mn = checked
            ELSE IF ~BroadcastSignatureOk(mnb)
            THEN ~r.ret /\ r.nDos = 100 /\ r.mn = checked
            ELSE /\ r.ret /\ r.nDos = 0
                 /\ IF UpdateWanted(checked, mnb) THEN Applied(r.mn, mnb)
                    ELSE r.mn = checked

\* Update has just applied an announcement that left the record's time at
\* the one it was created with: one of equal time under the recovery flag
C5_Witness ==
  /\ last.op = "Update" /\ last.path = "update_applied" /\ last.ret
  /\ mn.sigTime = 0

\* C6: Update never lowers the record's sigTime, and leaves it equal only
\* when it returns false, does not apply the announcement, or the
\* announcement carries the recovery flag and the record's own time.
C6_SigTimeMonotonic ==
  BetweenCalls =>
  \A mnb \in Broadcasts, o \in Oracles :
    LET r == Update(mn, mnb, o)
    IN /\ r.mn.sigTime >= mn.sigTime
       /\ r.mn.sigTime = mn.sigTime
            => \/ ~r.ret
               \/ r.path = "update_skipped"
               \/ (mnb.fRecovery /\ mnb.sigTime = mn.sigTime)

\* Update has just applied a newer announcement
C6_Witness ==
  /\ last.op = "Update" /\ last.path = "update_applied" /\ last.ret
  /\ mn.sigTime > 0 /\ mn.sigTime = now

\* the owner's announcements of time t, without the recovery flag
OwnersAt(t, addrs, pings) ==
  { Signed(Unsigned(t, FALSE, mn.pubKeyCollateralAddress, sk, v, a,
                    IF p THEN Ping(t, PingBlock, sk) ELSE EmptyPing),
           mn.pubKeyCollateralAddress) :
      sk \in ServiceKeys, v \in Versions, a \in addrs, p \in pings }

\* the times T, newer than the record's, of a pair of announcements T, T + 1
PairTimes == { t \in Times : t > mn.sigTime /\ t + 1 \in Times /\ t <= now }

\* the record m and the record n carry the same announcement
SameFields(m, n) ==
  /\ m.addr = n.addr /\ m.pubKeyMerchantnode = n.pubKeyMerchantnode
  /\ m.nProtocolVersion = n.nProtocolVersion /\ m.vchSig = n.vchSig
  /\ m.sigTime = n.sigTime

\* C7 (as claimed): of two announcements of the owner with times T and
\* T + 1, newer than the record, the record ends with the fields of T + 1 in
\* either order of delivery, and T delivered after T + 1 is a no-op.
C7_Converges ==
  BetweenCalls =>
  \A t \in PairTimes, o \in HandlerOracles :
    \A a \in OwnersAt(t, {"A1"}, {TRUE}), b \in OwnersAt(t + 1, Addrs, {FALSE}) :
      LET ra == Update(mn, a, o)
          rab == Update(ra.mn, b, o)
          rb == Update(mn, b, o)
          rba == Update(rb.mn, a, o)
      IN /\ Applied(rab.mn, b)
         /\ Applied(rba.mn, b)
         /\ ~rba.ret /\ rba.mn = rb.mn

\* C7 (amended): T delivered after T + 1 was applied is a no-op. T + 1
\* delivered after T is applied only when the record is not banned after
\* its Check and either was not announced within
\* MERCHANTNODE_MIN_MNB_SECONDS or the announcement is this node's own;
\* otherwise Update returns without touching the fields the record had, so
\* the two orders of delivery may leave different records.
C7_ConvergesAmended ==
  BetweenCalls =>
  \A t \in PairTimes, o \in Oracles :
    \A a \in OwnersAt(t, {"A1"}, {TRUE}), b \in OwnersAt(t + 1, Addrs, {FALSE}) :
      LET ra == Update(mn, a, o)
          rab == Update(ra.mn, b, o)
          rb == Update(mn, b, o)
          rba == Update(rb.mn, a, o)
          checked == Check(ra.mn, FALSE, o)
      IN /\ Applied(rb.mn, b)
            => ~rba.ret /\ rba.nDos = 0 /\ rba.relay = {} /\ rba.mn = rb.mn
         /\ IF /\ ~IsPoSeBanned(checked)
               /\ \/ now - checked.sigTime >= MERCHANTNODE_MIN_MNB_SECONDS
                  \/ (fMerchantNode
                      /\ b.pubKeyMerchantnode = activePubKeyMerchantnode)
            THEN rab.ret /\ Applied(rab.mn, b)
            ELSE SameFields(rab.mn, ra.mn)

\* Update has just left aside a newer announcement for a record that took
\* one a time unit ago
C7_Witness ==
  /\ last.op = "Update" /\ last.path = "update_skipped" /\ last.ret
  /\ mn.sigTime > 0 /\ now = mn.sigTime + 1

\* the announcement is one CheckOutpoint has nothing else against: not this
\* node's own, signed by the key the collateral pays, not older than the
\* block that gave the collateral its confirmations
SoundForOutpoint(mnb, o) ==
  /\ ~OutpointOwn(mnb) /\ BroadcastSignatureOk(mnb)
  /\ o.lockMain /\ o.txFound
  /\ coin.found /\ coin.nValue = COLLATERAL_AMOUNT
  /\ coin.payee = mnb.pubKeyCollateralAddress
  /\ mnb.sigTime >= BlockTime(coin.nHeight + nMasternodeMinimumConfirmations - 1)

\* C8 (as claimed): for a collateral of the exact amount got into the chain
\* at height H and an announcement sound otherwise, CheckOutpoint at height
\* H + min_conf - 1 fails and erases the announcement from the seen cache,
\* and at height H + min_conf succeeds.
C8_ConfirmationBoundary ==
  BetweenCalls =>
  \A mnb \in OutpointBroadcasts, o \in OutpointOracles :
    SoundForOutpoint(mnb, o)
      => LET r == CheckOutpoint(mnb, coin, seenMnb, o)
         IN /\ height = coin.nHeight + nMasternodeMinimumConfirmations - 1
                 => ~r.ret /\ ~r.seen
            /\ height = coin.nHeight + nMasternodeMinimumConfirmations
                 => r.ret

\* C8 (amended): the confirmations are counted with the block of the
\* collateral: CheckOutpoint fails for insufficient confirmations, with nDos
\* 0, and erases the announcement from the seen cache up to height
\* H + min_conf - 2, and succeeds, leaving the cache alone, from height
\* H + min_conf - 1 on.
C8_ConfirmationBoundaryAmended ==
  BetweenCalls =>
  \A mnb \in OutpointBroadcasts, o \in OutpointOracles :
    SoundForOutpoint(mnb, o)
      => LET r == CheckOutpoint(mnb, coin, seenMnb, o)
         IN IF height <= coin.nHeight + nMasternodeMinimumConfirmations - 2
            THEN ~r.ret /\ r.nDos = 0 /\ ~r.seen
            ELSE r.ret /\ r.seen = seenMnb

\* CheckOutpoint has just failed for a collateral one block short of its
\* confirmations, and the announcement is out of the seen cache
C8_Witness ==
  /\ last.op = "CheckOutpoint" /\ last.path = "outpoint_immature" /\ ~last.ret
  /\ height = coin.nHeight + nMasternodeMinimumConfirmations - 2
  /\ coin.found /\ coin.nValue = COLLATERAL_AMOUNT /\ ~seenMnb

\* C9: CheckAndUpdate refuses a ping whose block is more than
\* PING_BLOCK_HORIZON behind the tip, alone or bundled in an announcement:
\* false, the record's lastPing and state unchanged, nothing relayed; a
\* block exactly at the horizon is not refused for its age.
C9_OldBlockPingRejected ==
  BetweenCalls =>
  \A mnp \in Pings, o \in PingOracles, fFromNewBroadcast \in BOOLEAN :
    LET r == CheckAndUpdate(mn, mnp, fFromNewBroadcast, o)
    IN /\ (mnp.blockHeight # NullBlock
           /\ height - mnp.blockHeight > PING_BLOCK_HORIZON)
            => /\ ~r.ret /\ r.relay = {}
               /\ r.mn.lastPing = mn.lastPing
               /\ r.mn.nActiveState = mn.nActiveState
       /\ height - mnp.blockHeight = PING_BLOCK_HORIZON
            => r.path # "ping_old_block"

\* CheckAndUpdate has just refused a ping for the age of its block, on a
\* chain that has grown
C9_Witness ==
  /\ last.op = "CheckAndUpdate" /\ last.path = "ping_old_block" /\ ~last.ret
  /\ height > StartHeight

\* a Check(fForce) with the answers o gets to the expiration tests
ReachesExpiry(fForce, o) ==
  /\ ~o.shutdown /\ ~CheckRateLimited(mn, fForce)
  /\ ~IsOutpointSpent(mn) /\ o.lockMain /\ coin.found
  /\ IF IsPoSeBanned(mn) THEN height >= mn.nPoSeBanHeight
     ELSE mn.nPoSeBanScore < MERCHANTNODE_POSE_BAN_MAX_SCORE
  /\ ~fRequireUpdate(mn)
  /\ (o.listSynced \/ fOurMasternode(mn))

\* C10 (as claimed): a record whose heartbeat is older than the expiration
\* threshold, outside the sync grace window, is put in EXPIRED by a Check
\* that gets to the expiration tests; after CheckAndUpdate accepted a ping
\* of the present, with no shutdown requested, the next Check yields ENABLED.
C10_ExpiredThenEnabled ==
  BetweenCalls =>
  /\ \A o \in Oracles :
       (ReachesExpiry(TRUE, o) /\ mn.lastPing # EmptyPing
        /\ ~IsPingedWithin(mn, MERCHANTNODE_EXPIRATION_SECONDS, now))
         => IsExpired(Check(mn, TRUE, o))
  /\ \A mnp \in Pings, o \in HandlerOracles :
       LET r == CheckAndUpdate(mn, mnp, FALSE, o)
       IN (mnp.sigTime = now /\ r.ret) => IsEnabled(Check(r.mn, TRUE, o))

\* C10 (amended): a Check that gets to the expiration tests puts a record
\* whose heartbeat is older than the expiration threshold in
\* NEW_START_REQUIRED when the heartbeat is older than the new-start
\* threshold too, else in WATCHDOG_EXPIRED when the watchdog has expired,
\* else in EXPIRED. After CheckAndUpdate accepted a ping the record holds it
\* and is ENABLED, EXPIRED or WATCHDOG_EXPIRED; when the ping is within the
\* expiration threshold, the watchdog has not expired, no shutdown is
\* requested and the list is synced (or the record is this node's), it is
\* ENABLED and the next Check leaves it ENABLED.
C10_ExpiredThenEnabledAmended ==
  BetweenCalls =>
  /\ \A o \in Oracles, fForce \in BOOLEAN :
       (ReachesExpiry(fForce, o)
        /\ ~IsPingedWithin(mn, MERCHANTNODE_EXPIRATION_SECONDS, now))
         => Check(mn, fForce, o).nActiveState =
              IF ~IsPingedWithin(mn, MERCHANTNODE_NEW_START_REQUIRED_SECONDS, now)
              THEN MERCHANTNODE_NEW_START_REQUIRED
              ELSE IF fWatchdogExpired(mn, o) THEN MERCHANTNODE_WATCHDOG_EXPIRED
              ELSE MERCHANTNODE_EXPIRED
  /\ \A mnp \in Pings, o \in PingOracles :
       LET r == CheckAndUpdate(mn, mnp, FALSE, o)
       IN r.ret
            => /\ r.mn.lastPing = mnp
               /\ r.mn.nActiveState \in
                    {MERCHANTNODE_ENABLED, MERCHANTNODE_EXPIRED,
                     MERCHANTNODE_WATCHDOG_EXPIRED}
               /\ (/\ IsPingedWithin(r.mn, MERCHANTNODE_EXPIRATION_SECONDS, now)
                   /\ ~fWatchdogExpired(r.mn, o) /\ ~o.shutdown
                   /\ (o.listSynced \/ fOurMasternode(r.mn)))
                    => IsEnabled(r.mn) /\ IsEnabled(Check(r.mn, TRUE, o))

\* CheckAndUpdate has just accepted a ping for a record that was EXPIRED
\* and left it ENABLED
C10_Witness ==
  /\ last.op = "CheckAndUpdate" /\ last.path = "ping_accepted" /\ last.ret
  /\ last.from = MERCHANTNODE_EXPIRED /\ IsEnabled(mn)

\* C11: a Check that is not forced, made less than the re-check interval
\* after the record was last checked, leaves the whole record as it was
\* (state, score, ban height, time of the last check), whatever the
\* collaborators answer and whatever became of the chain and the collateral;
\* so a Check that changes the record is forced or made after the interval.
C11_RateLimitedIsNoOp ==
  BetweenCalls =>
  \A o \in Oracles :
    /\ now - mn.nTimeLastChecked < MERCHANTNODE_CHECK_SECONDS
         => CheckAt(mn, FALSE, o).mn = mn
    /\ \A fForce \in BOOLEAN :
         CheckAt(mn, fForce, o).mn # mn
           => fForce \/ now - mn.nTimeLastChecked >= MERCHANTNODE_CHECK_SECONDS

\* an unforced Check has just been skipped for a record whose collateral was
\* spent since it was last checked
C11_Witness ==
  /\ last.op = "Check" /\ last.path = "rate_limited"
  /\ ~coin.found /\ ~IsOutpointSpent(mn) /\ mn.nTimeLastChecked = now

\* the record with another previous state, everything else alike
Twin(s) == [mn EXCEPT !.nActiveState = s]

\* the answers under which a Check is executed: no shutdown, cs_main free
ExecutedOracles == { o \in Oracles : ~o.shutdown /\ o.lockMain }

\* the previous state of m is one that Check() keeps: the collateral was
\* found spent, the record is banned, or its expiry is held while the list
\* is not synced
Sticky(m, o) == IsOutpointSpent(m) \/ IsPoSeBanned(m) \/ CheckHold(m, o)

\* C12 (as claimed): two records that differ only in their previous state
\* are in the same state after an executed Check(force = true).
C12_Deterministic ==
  BetweenCalls =>
  \A s \in States, o \in ExecutedOracles :
    Check(Twin(s), TRUE, o).nActiveState = Check(mn, TRUE, o).nActiveState

\* C12 (amended): two records that differ only in their previous state are
\* in the same state, with the same score and ban height, after an executed
\* Check(force = true), provided neither was OUTPOINT_SPENT or POSE_BAN, nor
\* EXPIRED, WATCHDOG_EXPIRED or NEW_START_REQUIRED while the list is not
\* synced, the record not pinged within the minimum interval and not this
\* node's own.
C12_DeterministicAmended ==
  BetweenCalls =>
  \A s \in States, o \in ExecutedOracles :
    (~Sticky(mn, o) /\ ~Sticky(Twin(s), o))
      => Check(Twin(s), TRUE, o) = Check(mn, TRUE, o)

\* a Check has just taken an EXPIRED record, not held, to NEW_START_REQUIRED
C12_Witness ==
  /\ last.op = "Check" /\ last.path = "new_start"
  /\ last.from = MERCHANTNODE_EXPIRED /\ IsNewStartRequired(mn)

\* the record requires a protocol update or a new start
StaleRecord == IsUpdateRequired(mn) \/ IsNewStartRequired(mn)

\* the record is back in service
BackInService == IsPreEnabled(mn) \/ IsEnabled(mn)

\* C13 (as claimed): a standalone ping for a record that is UPDATE_REQUIRED
\* or NEW_START_REQUIRED is rejected and leaves the record as it was, and
\* from then on, while the record gets standalone pings and Checks but no
\* announcement, it is never PRE_ENABLED or ENABLED again.
C13_StaleStaysStale ==
  /\ [][(StaleRecord /\ last'.op = "CheckAndUpdate")
          => (mn' = mn /\ ~last'.ret)]_vars
  /\ [](StaleRecord => [](~BackInService))

\* C13, the first half alone: the standalone ping for a stale record is
\* rejected, whatever it carries, and leaves the record as it was.
C13_StalePingRejected ==
  BetweenCalls =>
  \A mnp \in Pings, o \in PingOracles :
    StaleRecord =>
      LET r == CheckAndUpdate(mn, mnp, FALSE, o) IN NoOp(r) /\ r.nDos \in {0, 1}

\* the states a ping is relayed for
RelayStates ==
  {MERCHANTNODE_ENABLED, MERCHANTNODE_EXPIRED, MERCHANTNODE_WATCHDOG_EXPIRED}

\* C14: CheckAndUpdate, for a standalone or a bundled ping, returns true
\* only when it leaves the record ENABLED, EXPIRED or WATCHDOG_EXPIRED, and
\* relays the ping only when it returns true; a ping that passed every test
\* and was stored is answered with true exactly when the forced Check left
\* the record in one of these three states.
C14_RelayedStates ==
  BetweenCalls =>
  \A mnp \in Pings, o \in PingOracles, fFromNewBroadcast \in BOOLEAN :
    LET r == CheckAndUpdate(mn, mnp, fFromNewBroadcast, o)
    IN /\ r.ret => r.mn.nActiveState \in RelayStates
       /\ r.relay # {} => r.ret
       /\ r.mn.nActiveState \notin RelayStates => (~r.ret /\ r.relay = {})
       /\ r.mn.lastPing # mn.lastPing
            => /\ r.mn = Check([mn EXCEPT !.lastPing = mnp], TRUE, o)
               /\ r.ret <=> r.mn.nActiveState \in RelayStates

\* a ping has just been stored for a banned record, and not relayed
C14_Witness ==
  /\ last.op = "CheckAndUpdate" /\ last.path = "ping_not_relayed"
  /\ ~last.ret /\ last.relay = {}
  /\ IsPoSeBanned(mn) /\ mn.lastPing.sigTime = now

\* C15: Update and CheckAndUpdate relay nothing when they return false and
\* nothing while the node is not synced; the announcement is relayed only
\* when it passed every test of Update and its fields were applied, and a
\* ping, standalone or bundled, only when it passed every test of
\* CheckAndUpdate and was stored.
C15_RelayGated ==
  BetweenCalls =>
  /\ \A mnb \in Broadcasts, o \in Oracles :
       LET r == Update(mn, mnb, o)
       IN /\ r.relay # {} => (o.synced /\ r.ret)
          /\ "mnb" \in r.relay
               => /\ ~UpdateDuplicate(mn, mnb) /\ ~UpdateOlder(mn, mnb)
                  /\ ~IsPoSeBanned(Check(mn, FALSE, o))
                  /\ mnb.pubKeyCollateralAddress = mn.pubKeyCollateralAddress
                  /\ BroadcastSignatureOk(mnb)
                  /\ Applied(r.mn, mnb)
          /\ "mnp" \in r.relay
               => /\ mnb.lastPing # EmptyPing /\ r.mn.lastPing = mnb.lastPing
                  /\ ~PingTooFarInFuture(mnb.lastPing)
                  /\ ~PingBlockUnknown(mnb.lastPing)
                  /\ ~PingBlockTooOld(mnb.lastPing)
                  /\ PingSignatureOk(mnb.lastPing, mnb.pubKeyMerchantnode)
  /\ \A mnp \in Pings, o \in PingOracles :
       LET r == CheckAndUpdate(mn, mnp, FALSE, o)
       IN r.relay # {}
            => /\ o.synced /\ r.ret /\ r.relay = {"mnp"}
               /\ r.mn.lastPing = mnp
               /\ ~PingTooFarInFuture(mnp) /\ ~PingBlockUnknown(mnp)
               /\ ~PingBlockTooOld(mnp) /\ ~PingTooEarly(mn, mnp)
               /\ PingSignatureOk(mnp, mn.pubKeyMerchantnode)
               /\ ~StaleRecord

\* Update has just relayed an announcement and the ping bundled with it
C15_Witness ==
  /\ last.op = "Update" /\ last.ret /\ last.relay = {"mnb", "mnp"}
  /\ mn.sigTime = now /\ mn.lastPing.sigTime = now

\* CheckOutpoint fails for a passing cause: cs_main is taken, or the
\* collateral, found with the right amount, lacks confirmations; the
\* announcement is not this node's own and its signature is good
OutpointTransient(mnb, o) ==
  /\ ~OutpointOwn(mnb) /\ BroadcastSignatureOk(mnb)
  /\ \/ ~o.lockMain
     \/ /\ CheckCollateral(coin) = COLLATERAL_OK
        /\ height - coin.nHeight + 1 < nMasternodeMinimumConfirmations

\* C16: CheckOutpoint takes the announcement out of the seen cache exactly
\* when it fails because cs_main is taken or the collateral lacks
\* confirmations, and then with nDos 0; on every other failure and on
\* success the cache is left as it was.
C16_EvictionOnTransient ==
  BetweenCalls =>
  \A mnb \in OutpointBroadcasts, o \in OutpointOracles :
    LET r == CheckOutpoint(mnb, coin, TRUE, o)
    IN /\ ~r.seen <=> OutpointTransient(mnb, o)
       /\ ~r.seen => (~r.ret /\ r.nDos = 0)
       /\ CheckOutpoint(mnb, coin, seenMnb, o).seen = (seenMnb /\ r.seen)

\* CheckOutpoint has just failed for a collateral of the wrong amount, and
\* the announcement is still in the seen cache
C16_Witness ==
  /\ last.op = "CheckOutpoint" /\ last.path = "outpoint_invalid_amount"
  /\ ~last.ret /\ seenMnb /\ coin.nValue # COLLATERAL_AMOUNT

\* the answers of a Check() that finds cs_main taken
NoLockOracles == { o \in Oracles : ~o.shutdown /\ ~o.lockMain }

\* the places Check() returns at before it has looked at the record
NotExecuted == {"shutdown", "rate_limited", "no_lock"}

\* C17: a Check that finds cs_main taken returns at once: the record keeps
\* its state, score and ban height (only the time of the last check is
\* set); a forced Check that then gets the lock is executed, while an
\* unforced one at the same time is skipped by the rate limit.
C17_NoLockDefers ==
  BetweenCalls =>
  \A o \in NoLockOracles, fForce \in BOOLEAN :
    LET r == CheckAt(mn, fForce, o)
    IN /\ r.mn = [mn EXCEPT !.nTimeLastChecked = r.mn.nTimeLastChecked]
       /\ r.path \in {"rate_limited", "spent", "no_lock"}
       /\ r.path = "no_lock"
            => /\ r.mn.nTimeLastChecked = now
               /\ \A o2 \in ExecutedOracles :
                    /\ CheckAt(r.mn, TRUE, o2).path \notin NotExecuted
                    /\ CheckAt(r.mn, FALSE, o2).path = "rate_limited"

\* a Check has just returned for want of cs_main on a record whose
\* collateral is spent, and the record is not marked spent
C17_Witness ==
  /\ last.op = "Check" /\ last.path = "no_lock"
  /\ ~coin.found /\ ~IsOutpointSpent(mn) /\ mn.nTimeLastChecked = now

\* the announcement is one CheckOutpoint accepts when it gets cs_main
ValidForOutpoint(mnb, o) ==
  /\ SoundForOutpoint(mnb, [o EXCEPT !.lockMain = TRUE])
  /\ ~OutpointImmature(coin)

\* C18 (as claimed): an announcement that CheckOutpoint accepts when cs_main
\* is free is accepted when cs_main is taken by another thread.
C18_BlockingLock ==
  BetweenCalls =>
  \A mnb \in OutpointBroadcasts, o \in OutpointOracles :
    (ValidForOutpoint(mnb, o) /\ ~o.lockMain)
      => CheckOutpoint(mnb, coin, seenMnb, o).ret

\* C18 (amended): CheckOutpoint only tries to take cs_main: an announcement
\* it accepts when cs_main is free is refused when cs_main is taken, with
\* nDos 0, and taken out of the seen cache, so that it is looked at again
\* when it comes in again.
C18_TryLock ==
  BetweenCalls =>
  \A mnb \in OutpointBroadcasts, o \in OutpointOracles :
    ValidForOutpoint(mnb, o)
      => LET r == CheckOutpoint(mnb, coin, seenMnb, o)
         IN IF o.lockMain THEN r.ret /\ r.nDos = 0 /\ r.seen = seenMnb
            ELSE ~r.ret /\ r.nDos = 0 /\ ~r.seen

\* CheckOutpoint has just refused, for want of cs_main, an announcement
\* whose collateral is found, of the right amount and confirmed
C18_Witness ==
  /\ last.op = "CheckOutpoint" /\ last.path = "outpoint_no_lock" /\ ~last.ret
  /\ ~seenMnb /\ CheckCollateral(coin) = COLLATERAL_OK /\ ~OutpointImmature(coin)

\* the announcements of time t made for another collateral key
ForeignAt(t) ==
  { mnb \in BroadcastsAt(t) :
      mnb.pubKeyCollateralAddress # mn.pubKeyCollateralAddress }

\* the record keeps the outpoint and the collateral key it was created with
SameIdentity(m) ==
  /\ m.outpoint = TheOutpoint
  /\ m.pubKeyCollateralAddress = "K1"

\* C19 (as claimed): the record's outpoint and collateral key never change,
\* and Update refuses an announcement made for another collateral key with
\* nDos 33 and applies none of its fields.
C19_IdentityImmutable ==
  /\ SameIdentity(mn)
  /\ BetweenCalls =>
     \A t \in BroadcastTimes :
       \A mnb \in ForeignAt(t), o \in HandlerOracles :
         LET r == Update(mn, mnb, o)
         IN ~r.ret /\ r.nDos = 33 /\ SameFields(r.mn, mn) /\ SameIdentity(r.mn)

\* C19 (amended): the record's outpoint and collateral key never change, and
\* Update refuses an announcement made for another collateral key, applies
\* none of its fields and relays nothing; nDos is 33 when the announcement
\* got as far as the comparison of the keys, and 0 when it was refused
\* before: it is as old as the record without the recovery flag, or older, or
\* the record is banned after its Check.
C19_IdentityImmutableAmended ==
  /\ SameIdentity(mn)
  /\ BetweenCalls =>
     \A t \in BroadcastTimes :
       \A mnb \in ForeignAt(t), o \in Oracles :
         LET r == Update(mn, mnb, o)
         IN /\ ~r.ret /\ r.relay = {}
            /\ SameFields(r.mn, mn) /\ SameIdentity(r.mn)
            /\ r.nDos = IF \/ UpdateDuplicate(mn, mnb) \/ UpdateOlder(mn, mnb)
                           \/ IsPoSeBanned(Check(mn, FALSE, o))
                        THEN 0 ELSE 33

\* Update has just refused, with nDos 33, an announcement made for another
\* collateral key
C19_Witness ==
  /\ last.op = "Update" /\ last.path = "update_key_mismatch"
  /\ ~last.ret /\ last.nDos = 33 /\ SameIdentity(mn)

\* the last heartbeat of m is older than nSeconds, or there is none
NoHeartbeatWithin(m, nSeconds) ==
  m.lastPing = EmptyPing \/ now - m.lastPing.sigTime >= nSeconds

\* m is this node's own record
OwnIdentity(m) == fMerchantNode /\ m.pubKeyMerchantnode = activePubKeyMerchantnode

\* the list is not synced and m, not this node's own, has no heartbeat
\* within the minimum interval
GraceWindow(m, o) ==
  /\ ~o.listSynced /\ NoHeartbeatWithin(m, MERCHANTNODE_MIN_MNP_SECONDS)
  /\ ~OwnIdentity(m)

HeldStates ==
  {MERCHANTNODE_EXPIRED, MERCHANTNODE_WATCHDOG_EXPIRED,
   MERCHANTNODE_NEW_START_REQUIRED}

WatchdogTimeout(m, o) ==
  /\ o.synced /\ o.watchdogActive
  /\ now - m.nTimeLastWatchdogVote > MERCHANTNODE_WATCHDOG_MAX_SECONDS

\* the end of the guard list, the same in both readings
GuardListEnd(m) ==
  IF m.lastPing.sigTime - m.sigTime < MERCHANTNODE_MIN_MNP_SECONDS
  THEN MERCHANTNODE_PRE_ENABLED
  ELSE MERCHANTNODE_ENABLED

\* the guard list as claimed, first match wins
GuardList(m, o) ==
  IF IsOutpointSpent(m) \/ ~coin.found THEN MERCHANTNODE_OUTPOINT_SPENT
  ELSE IF IsPoSeBanned(m) /\ height < m.nPoSeBanHeight THEN m.nActiveState
  ELSE IF m.nPoSeBanScore >= MERCHANTNODE_POSE_BAN_MAX_SCORE
  THEN MERCHANTNODE_POSE_BAN
  ELSE IF OwnIdentity(m) /\ m.nProtocolVersion < PROTOCOL_VERSION
  THEN MERCHANTNODE_UPDATE_REQUIRED
  ELSE IF GraceWindow(m, o) /\ m.nActiveState \in HeldStates THEN m.nActiveState
  ELSE IF NoHeartbeatWithin(m, MERCHANTNODE_NEW_START_REQUIRED_SECONDS)
  THEN MERCHANTNODE_NEW_START_REQUIRED
  ELSE IF WatchdogTimeout(m, o) THEN MERCHANTNODE_WATCHDOG_EXPIRED
  ELSE IF NoHeartbeatWithin(m, MERCHANTNODE_EXPIRATION_SECONDS)
  THEN MERCHANTNODE_EXPIRED
  ELSE GuardListEnd(m)

\* the guard list with the two guards the claim leaves out: a banned record
\* whose ban height is reached is not banned again, and the three expiry
\* guards are passed over in the grace window
GuardListAmended(m, o) ==
  IF IsOutpointSpent(m) \/ ~coin.found THEN MERCHANTNODE_OUTPOINT_SPENT
  ELSE IF IsPoSeBanned(m) /\ height < m.nPoSeBanHeight THEN m.nActiveState
  ELSE IF ~IsPoSeBanned(m) /\ m.nPoSeBanScore >= MERCHANTNODE_POSE_BAN_MAX_SCORE
  THEN MERCHANTNODE_POSE_BAN
  ELSE IF OwnIdentity(m) /\ m.nProtocolVersion < PROTOCOL_VERSION
  THEN MERCHANTNODE_UPDATE_REQUIRED
  ELSE IF GraceWindow(m, o)
  THEN IF m.nActiveState \in HeldStates THEN m.nActiveState ELSE GuardListEnd(m)
  ELSE IF NoHeartbeatWithin(m, MERCHANTNODE_NEW_START_REQUIRED_SECONDS)
  THEN MERCHANTNODE_NEW_START_REQUIRED
  ELSE IF WatchdogTimeout(m, o) THEN MERCHANTNODE_WATCHDOG_EXPIRED
  ELSE IF NoHeartbeatWithin(m, MERCHANTNODE_EXPIRATION_SECONDS)
  THEN MERCHANTNODE_EXPIRED
  ELSE GuardListEnd(m)

\* the Check is executed: not skipped by the rate limit
NotRateLimited(fForce) ==
  fForce \/ now - mn.nTimeLastChecked >= MERCHANTNODE_CHECK_SECONDS

\* C20 (as claimed): an executed Check leaves the record in the state of the
\* first guard of the claimed list that matches.
C20_GuardList ==
  BetweenCalls =>
  \A o \in ExecutedOracles, fForce \in BOOLEAN :
    NotRateLimited(fForce)
      => Check(mn, fForce, o).nActiveState = GuardList(mn, o)

\* C20 (amended): an executed Check leaves the record in the state of the
\* first guard that matches in the list where a record is banned for its
\* score only when it is not banned already (a banned record whose ban
\* height is reached has its score decreased by one and goes on), and where
\* the guards for NEW_START_REQUIRED, WATCHDOG_EXPIRED and EXPIRED are passed
\* over while the list is not synced and the record, not this node's own,
\* has no heartbeat within the minimum interval; a ban sets the ban height
\* to the chain height plus the size of the network.
C20_GuardListAmended ==
  BetweenCalls =>
  \A o \in ExecutedOracles, fForce \in BOOLEAN :
    NotRateLimited(fForce)
      => LET m == Check(mn, fForce, o)
         IN /\ m.nActiveState = GuardListAmended(mn, o)
            /\ m.nTimeLastChecked = now
            /\ m.nPoSeBanScore =
                 IF /\ ~IsOutpointSpent(mn) /\ coin.found /\ IsPoSeBanned(mn)
                    /\ height >= mn.nPoSeBanHeight
                    /\ mn.nPoSeBanScore > -MERCHANTNODE_POSE_BAN_MAX_SCORE
                 THEN mn.nPoSeBanScore - 1 ELSE mn.nPoSeBanScore
            /\ m.nPoSeBanHeight =
                 IF IsPoSeBanned(m) /\ ~IsPoSeBanned(mn)
                 THEN height + o.size ELSE mn.nPoSeBanHeight

\* a Check has just passed over the expiry of a record whose heartbeat is
\* older than the new-start threshold: it was ENABLED and is PRE_ENABLED
C20_Witness ==
  /\ last.op = "Check" /\ last.path = "pre_enabled"
  /\ last.from = MERCHANTNODE_ENABLED /\ IsPreEnabled(mn)
  /\ NoHeartbeatWithin(mn, MERCHANTNODE_NEW_START_REQUIRED_SECONDS)

\* the ban of the record is over: its collateral is unspent and the chain
\* has reached its ban height
BanOver == IsPoSeBanned(mn) /\ coin.found /\ height >= mn.nPoSeBanHeight

\* the record as it would be had it not been banned, with the score s
Unbanned(s) ==
  [mn EXCEPT !.nActiveState = MERCHANTNODE_PRE_ENABLED, !.nPoSeBanScore = s]

\* C21 (as claimed): an executed Check of a banned record whose ban is over
\* lowers the score by exactly one, leaves the record in the state the
\* remaining guards give a record of that score, and not in POSE_BAN.
C21_BanDecays ==
  BetweenCalls =>
  \A o \in ExecutedOracles, fForce \in BOOLEAN :
    (BanOver /\ NotRateLimited(fForce))
      => LET m == Check(mn, fForce, o)
         IN /\ m.nPoSeBanScore = mn.nPoSeBanScore - 1
            /\ ~IsPoSeBanned(m)
            /\ m.nActiveState =
                 Check(Unbanned(mn.nPoSeBanScore - 1), fForce, o).nActiveState

\* C21 (amended): an executed Check of a banned record whose ban is over
\* lowers the score by one, unless the score is at its lower bound already,
\* where it stays; it leaves the record in the state the remaining guards
\* give a record of that score, and not in POSE_BAN; the ban height is kept.
C21_BanDecaysAmended ==
  BetweenCalls =>
  \A o \in ExecutedOracles, fForce \in BOOLEAN :
    (BanOver /\ NotRateLimited(fForce))
      => LET m == Check(mn, fForce, o)
         IN /\ m.nPoSeBanScore =
                 IF mn.nPoSeBanScore > -MERCHANTNODE_POSE_BAN_MAX_SCORE
                 THEN mn.nPoSeBanScore - 1 ELSE mn.nPoSeBanScore
            /\ ~IsPoSeBanned(m)
            /\ m.nActiveState =
                 Check(Unbanned(m.nPoSeBanScore), fForce, o).nActiveState
            /\ m.nPoSeBanHeight = mn.nPoSeBanHeight

\* a Check has just ended the ban of a record: the chain is at the ban
\* height or above, the score is one below the maximum
C21_Witness ==
  /\ last.op = "Check" /\ last.from = MERCHANTNODE_POSE_BAN
  /\ ~IsPoSeBanned(mn) /\ ~IsOutpointSpent(mn)
  /\ mn.nPoSeBanHeight > 0 /\ height >= mn.nPoSeBanHeight
  /\ mn.nPoSeBanScore = MERCHANTNODE_POSE_BAN_MAX_SCORE - 1

\* the Check(fForce) with the answers o is executed: no shutdown, not
\* skipped by the rate limit, cs_main free
Executed(fForce, o) == ~o.shutdown /\ NotRateLimited(fForce) /\ o.lockMain

\* C22 (as claimed): in the grace window (the list not synced, the record
\* not this node's own and without a heartbeat within the minimum interval)
\* a Check never moves the record into EXPIRED, WATCHDOG_EXPIRED or
\* NEW_START_REQUIRED, and a record in one of the three keeps its state.
C22_GraceWindow ==
  BetweenCalls =>
  \A o \in Oracles, fForce \in BOOLEAN :
    GraceWindow(mn, o)
      => LET m == Check(mn, fForce, o)
         IN /\ m.nActiveState \in HeldStates => m.nActiveState = mn.nActiveState
            /\ mn.nActiveState \in HeldStates => m.nActiveState = mn.nActiveState

\* C22 (amended): in the grace window a Check never moves the record into
\* EXPIRED, WATCHDOG_EXPIRED or NEW_START_REQUIRED, and a record in one of
\* the three keeps its state unless the Check, when executed, finds the
\* collateral spent, which leaves OUTPOINT_SPENT, or else the score at the
\* maximum, which leaves POSE_BAN.
C22_GraceWindowAmended ==
  BetweenCalls =>
  \A o \in Oracles, fForce \in BOOLEAN :
    GraceWindow(mn, o)
      => LET m == Check(mn, fForce, o)
         IN /\ m.nActiveState \in HeldStates => m.nActiveState = mn.nActiveState
            /\ mn.nActiveState \in HeldStates
                 => m.nActiveState =
                      IF Executed(fForce, o) /\ ~coin.found
                      THEN MERCHANTNODE_OUTPOINT_SPENT
                      ELSE IF /\ Executed(fForce, o)
                              /\ mn.nPoSeBanScore >= MERCHANTNODE_POSE_BAN_MAX_SCORE
                      THEN MERCHANTNODE_POSE_BAN
                      ELSE mn.nActiveState

\* a Check has just held an EXPIRED record that has no heartbeat within the
\* new-start threshold and is not this node's own
C22_Witness ==
  /\ last.op = "Check" /\ last.path = "hold"
  /\ last.from = MERCHANTNODE_EXPIRED /\ IsExpired(mn)
  /\ NoHeartbeatWithin(mn, MERCHANTNODE_NEW_START_REQUIRED_SECONDS)
  /\ ~OwnIdentity(mn) /\ now > StartTime

\* the announcement passes every rejection test of Update on the record
\* that the Check of Update left: not a duplicate, not older, the record
\* not banned, the collateral keys alike, the signature good
PassesUpdate(mnb, checked) ==
  /\ ~(mn.sigTime = mnb.sigTime /\ ~mnb.fRecovery)
  /\ mn.sigTime <= mnb.sigTime
  /\ ~IsPoSeBanned(checked)
  /\ checked.pubKeyCollateralAddress = mnb.pubKeyCollateralAddress
  /\ BroadcastSignatureOk(mnb)

\* the record was not announced within the minimum interval, or the
\* announcement carries this node's own service key
ReplaceCondition(checked, mnb) ==
  \/ now - checked.sigTime >= MERCHANTNODE_MIN_MNB_SECONDS
  \/ (fMerchantNode /\ mnb.pubKeyMerchantnode = activePubKeyMerchantnode)

PassesPingTests(mnp, fFromNewBroadcast) ==
  /\ mnp.sigTime <= now + FUTURE_DRIFT
  /\ mnp.blockHeight # NullBlock
  /\ fFromNewBroadcast \/ ~StaleRecord
  /\ height - mnp.blockHeight <= PING_BLOCK_HORIZON
  /\ \/ mn.lastPing = EmptyPing
     \/ mnp.sigTime - mn.lastPing.sigTime >=
          MERCHANTNODE_MIN_MNP_SECONDS - PING_EARLY_SLACK
  /\ mnp.signer = mn.pubKeyMerchantnode

\* C25 (as claimed): when CheckAndUpdate returns false the record's last
\* ping is the one it had; the ping is stored only when true is returned.
C25_RejectionKeepsHeartbeat ==
  BetweenCalls =>
  \A mnp \in Pings, o \in PingOracles, fFromNewBroadcast \in BOOLEAN :
    LET r == CheckAndUpdate(mn, mnp, fFromNewBroadcast, o)
    IN /\ ~r.ret => r.mn.lastPing = mn.lastPing
       /\ r.ret => r.mn.lastPing = mnp

\* C25 (amended): a ping that fails one of the tests of CheckAndUpdate
\* leaves the whole record as it was; a ping that passes them all is stored
\* as the record's last ping whatever is returned: true when the forced
\* Check left the record ENABLED, EXPIRED or WATCHDOG_EXPIRED, false, with
\* nDos 0 and nothing relayed, when it left it in another state.
C25_StoredBeforeVerdict ==
  BetweenCalls =>
  \A mnp \in Pings, o \in PingOracles, fFromNewBroadcast \in BOOLEAN :
    LET r == CheckAndUpdate(mn, mnp, fFromNewBroadcast, o)
    IN IF PassesPingTests(mnp, fFromNewBroadcast)
       THEN /\ r.mn.lastPing = mnp
            /\ r.ret <=> r.mn.nActiveState \in RelayStates
            /\ ~r.ret => (r.nDos = 0 /\ r.relay = {})
       ELSE ~r.ret /\ r.mn = mn /\ r.relay = {}

\* CheckAndUpdate has just returned false for a standalone ping of the
\* present that it stored: the record, announced less than the minimum ping
\* interval before, is PRE_ENABLED
C25_Witness ==
  /\ last.op = "CheckAndUpdate" /\ last.path = "ping_not_relayed" /\ ~last.ret
  /\ IsPreEnabled(mn) /\ mn.lastPing.sigTime = now
  /\ mn.lastPing.sigTime - mn.sigTime < MERCHANTNODE_MIN_MNP_SECONDS

\* C26 (as claimed): the SimpleCheck of an announcement reports nDos 0, 1 or
\* 100, and reports nDos 0 whenever it returns true, an announcement that is
\* degraded to EXPIRED for its ping included.
C26_ScoreVerdict ==
  BetweenCalls =>
  \A mnb \in SimpleBroadcasts, sh \in Shapes :
    LET r == SimpleCheck(mnb, sh)
    IN /\ r.nDos \in {0, 1, 100}
       /\ r.ret => r.nDos = 0

\* C26, what holds of the code: SimpleCheck reports nDos 0, 1 or 100, and
\* true with a nDos other than 0 only for an announcement, degraded to
\* EXPIRED, whose ping is too far in the future, and then nDos is 1.
C26_ScoreLeaksFromPing ==
  BetweenCalls =>
  \A mnb \in SimpleBroadcasts, sh \in Shapes :
    LET r == SimpleCheck(mnb, sh)
    IN /\ r.nDos \in {0, 1, 100}
       /\ (r.ret /\ r.nDos # 0)
            => /\ r.nDos = 1 /\ r.nActiveState = MERCHANTNODE_EXPIRED
               /\ mnb.lastPing # EmptyPing
               /\ mnb.lastPing.sigTime > now + FUTURE_DRIFT

\* SimpleCheck has just returned true with nDos 1
C26_Leak ==
  last.op = "SimpleCheck" /\ last.path = "simple_ok" /\ last.ret /\ last.nDos = 1

\* the protocol versions that are not this build's: an older and a newer one
OtherVersions == {OLD_PROTOCOL_VERSION, PROTOCOL_VERSION + 1}

\* the announcements that carry this node's own service key and another
\* protocol version
OwnMismatched ==
  UNION { { Signed(Unsigned(t, r, ck, activePubKeyMerchantnode, v, a, p), signer) :
              r \in BOOLEAN, ck \in CollateralKeys, v \in OtherVersions,
              a \in Addrs, p \in BundledPings(t, activePubKeyMerchantnode),
              signer \in CollateralKeys } :
          t \in BroadcastTimes }

\* C27 (as claimed): on a node that runs a merchant node, an announcement
\* with the node's own service key and another protocol version is not
\* taken into the record, which keeps the fields and the score the Check of
\* Update left it with, and is not relayed.
C27_OwnMismatchNotTaken ==
  (BetweenCalls /\ fMerchantNode) =>
  \A mnb \in OwnMismatched, o \in Oracles :
    LET checked == Check(mn, FALSE, o)
        r == Update(mn, mnb, o)
    IN /\ SameFields(r.mn, checked)
       /\ r.mn.nPoSeBanScore = checked.nPoSeBanScore
       /\ "mnb" \notin r.relay

\* C27, what holds of the code: such an announcement is never relayed, and
\* when it passes the rejection tests of Update it is answered with true,
\* its fields replace the record's and the score is set to the lower bound;
\* when it does not, the record stays as the Check of Update left it.
C27_OwnMismatchTaken ==
  (BetweenCalls /\ fMerchantNode) =>
  \A mnb \in OwnMismatched, o \in Oracles :
    LET checked == Check(mn, FALSE, o)
        r == Update(mn, mnb, o)
    IN /\ "mnb" \notin r.relay
       /\ IF PassesUpdate(mnb, checked)
          THEN /\ r.ret /\ Applied(r.mn, mnb)
               /\ r.mn.nPoSeBanScore = -MERCHANTNODE_POSE_BAN_MAX_SCORE
               /\ r.mn.nPoSeBanHeight = 0
          ELSE ~r.ret /\ (r.mn = mn \/ r.mn = checked)

\* Update has just taken the fields of an announcement of this node's own
\* service key and an older protocol version, and not relayed it
C27_Taken ==
  /\ last.op = "Update" /\ last.path = "update_refused" /\ fMerchantNode
  /\ mn.nProtocolVersion = OLD_PROTOCOL_VERSION /\ mn.sigTime = now
  /\ mn.nPoSeBanScore = -MERCHANTNODE_POSE_BAN_MAX_SCORE

\* the places where a thread waits for cs
WantsCs == {"check_wants_cs", "ping_wants_cs", "update_wants_cs", "update_wants_cs2"}

\* the places where a thread, holding cs, comes to cs_main
ComesToMain == {"check_has_cs", "ping_has_cs", "update_has_cs", "update_has_cs2"}

\* the thread t cannot go on: it waits for cs that another holds, or for
\* cs_main
Waits(t) ==
  \/ threads.pc[t] \in WantsCs /\ threads.cs \notin {NoOwner, t}
  \/ threads.pc[t] \in ComesToMain /\ ~TryLock(threads.cs_main, t).proceeds

Deadlocked == \A t \in Threads : Waits(t)

\* C28: with the sweep in Check() (cs, then a try of cs_main) and the
\* handler in CheckAndUpdate or Update (cs_main, then cs inside Check), the
\* two threads never wait for each other, and every call that has begun
\* returns.
C28_DeadlockFree ==
  /\ [](~Deadlocked)
  /\ \A t \in Threads : (threads.pc[t] # "idle") ~> (threads.pc[t] = "idle")

\* the sweep holds cs and comes to cs_main while the handler holds cs_main
\* and waits for cs
C28_Witness ==
  /\ threads.pc["sweep"] = "check_has_cs" /\ threads.cs = "sweep"
  /\ threads.pc["handler"] \in WantsCs /\ threads.cs_main = "handler"

\* the ping is too early for the record, or older than its last one
EarlyOrOlder(mnp) ==
  /\ mn.lastPing # EmptyPing
  /\ mnp.sigTime - mn.lastPing.sigTime <
       MERCHANTNODE_MIN_MNP_SECONDS - PING_EARLY_SLACK

====
